---------------------------- MODULE Spec2Model ----------------------------
(***************************************************************************)
(* A model of passwordmaker-rs: input validation, password-part            *)
(* generation (hash, base conversion by repeated division, V06 padding),   *)
(* leet, and the assembly of prefix, password parts and suffix.            *)
(*                                                                         *)
(* Strings are sequences of Unicode scalar values (integers).  A grapheme  *)
(* is a non-empty string; a list of graphemes is a sequence of strings.    *)
(* Byte strings are sequences of integers in 0..255.                       *)
(***************************************************************************)
EXTENDS Integers, Sequences, FiniteSets, TLC

(***************************************************************************)
(* Bounds of the model.                                                    *)
(***************************************************************************)
\* Largest requested password_length of the grid of calls.
MaxLen == 3
\* Cap on the part counter i of one call (the code's counter is unbounded).
MaxParts == 11

(***************************************************************************)
(* Sequence helpers.                                                       *)
(***************************************************************************)
Min(a, b) == IF a < b THEN a ELSE b

Max(a, b) == IF a > b THEN a ELSE b

\* usize::saturating_sub
SaturatingSub(a, b) == IF a > b THEN a - b ELSE 0

\* Iterator::take(n) on a finite sequence
Take(s, n) == SubSeq(s, 1, Min(n, Len(s)))

\* Iterator::rev on a finite sequence
Reverse(s) == [k \in 1..Len(s) |-> s[Len(s) + 1 - k]]

\* Concatenation of a sequence of strings (collect::<String>() of &str items)
RECURSIVE Concat(_)
Concat(ss) ==
    IF Len(ss) = 0 THEN <<>>
    ELSE IF Len(ss) = 1 THEN ss[1]
    ELSE LET half == Len(ss) \div 2
         IN  Concat(SubSeq(ss, 1, half)) \o Concat(SubSeq(ss, half + 1, Len(ss)))

RECURSIVE SumSeq(_)
SumSeq(s) ==
    IF Len(s) = 0 THEN 0
    ELSE IF Len(s) = 1 THEN s[1]
    ELSE LET half == Len(s) \div 2
         IN  SumSeq(SubSeq(s, 1, half)) + SumSeq(SubSeq(s, half + 1, Len(s)))

(***************************************************************************)
(* Unicode: extended grapheme clusters (UAX #29) over the scalar values    *)
(* the model uses.  CR x LF stay together, nothing attaches to a control,  *)
(* and an Extend character attaches to whatever precedes it.               *)
(***************************************************************************)
\* Grapheme_Cluster_Break = Extend: U+0301 COMBINING ACUTE ACCENT,
\* U+0307 COMBINING DOT ABOVE
IsExtend(c) == c \in {769, 775}

\* Grapheme_Cluster_Break in {CR, LF, Control}
IsControl(c) == c < 32

\* TRUE iff there is no grapheme boundary between a and the following b
NoBreak(a, b) ==
    \/ a = 13 /\ b = 10
    \/ ~IsControl(a) /\ IsExtend(b)

\* TRUE iff a grapheme cluster starts at position k of s
IsClusterStart(s, k) == k = 1 \/ ~NoBreak(s[k - 1], s[k])

\* The first cluster start at or after position k, Len(s) + 1 if none
RECURSIVE NextStart(_, _)
NextStart(s, k) ==
    IF k > Len(s) \/ IsClusterStart(s, k) THEN k ELSE NextStart(s, k + 1)

\* The last cluster start at or before position k
RECURSIVE PrevStart(_, _)
PrevStart(s, k) == IF IsClusterStart(s, k) THEN k ELSE PrevStart(s, k - 1)

\* str::graphemes(true) and Grapheme::iter_from_str: the extended grapheme
\* clusters of s, in order.  A boundary depends on the two scalar values
\* around it only, so s is cut at a boundary near its middle.
RECURSIVE Graphemes(_)
Graphemes(s) ==
    IF Len(s) = 0 THEN <<>>
    ELSE LET k == NextStart(s, (Len(s) \div 2) + 1)
             j == PrevStart(s, Len(s))
         IN  IF k <= Len(s) /\ k > 1
             THEN Graphemes(SubSeq(s, 1, k - 1))
                  \o Graphemes(SubSeq(s, k, Len(s)))
             ELSE IF j = 1 THEN <<s>>
             ELSE Append(Graphemes(SubSeq(s, 1, j - 1)), SubSeq(s, j, Len(s)))

\* string.graphemes(true).count()
GraphemeCount(s) == Len(Graphemes(s))

(***************************************************************************)
(* Lower-casing (str::to_lowercase) over the scalar values the model uses: *)
(* ASCII and Greek capitals, U+0130 (which lower-cases to two scalar       *)
(* values) and the context rule for capital sigma (Final_Sigma).           *)
(***************************************************************************)
\* Unicode property Cased
IsCased(c) ==
    \/ c \in 65..90
    \/ c \in 97..122
    \/ c \in 913..937
    \/ c \in 945..969
    \/ c = 304

\* Unicode property Case_Ignorable
IsCaseIgnorable(c) == c \in {39, 46, 58, 94, 96, 769, 775}

\* char::to_lowercase for every scalar value but capital sigma
LowerChar(c) ==
    IF c \in 65..90 THEN <<c + 32>>
    ELSE IF c \in 913..937 THEN <<c + 32>>
    ELSE IF c = 304 THEN <<105, 775>>
    ELSE <<c>>

\* case_ignorable_then_cased: skip the case-ignorable values of s, then
\* tell whether the next one is cased
RECURSIVE CaseIgnorableThenCased(_)
CaseIgnorableThenCased(s) ==
    IF s = <<>> THEN FALSE
    ELSE IF IsCaseIgnorable(Head(s)) THEN CaseIgnorableThenCased(Tail(s))
    ELSE IsCased(Head(s))

\* map_uppercase_sigma: the capital sigma at position k of s
LowerSigma(s, k) ==
    IF /\ CaseIgnorableThenCased(Reverse(SubSeq(s, 1, k - 1)))
       /\ ~CaseIgnorableThenCased(SubSeq(s, k + 1, Len(s)))
    THEN <<962>>
    ELSE <<963>>

\* str::to_lowercase
ToLowercase(s) ==
    Concat([k \in 1..Len(s) |->
               IF s[k] = 931 THEN LowerSigma(s, k) ELSE LowerChar(s[k])])

(***************************************************************************)
(* Leet: the nine replacement tables, indexed by letter a..z.              *)
(***************************************************************************)
LeetOne ==
    << <<52>>, <<98>>, <<99>>, <<100>>, <<51>>, <<102>>,
       <<103>>, <<104>>, <<105>>, <<106>>, <<107>>, <<49>>,
       <<109>>, <<110>>, <<48>>, <<112>>, <<57>>, <<114>>,
       <<115>>, <<55>>, <<117>>, <<118>>, <<119>>, <<120>>,
       <<121>>, <<122>> >>
LeetTwo ==
    << <<52>>, <<98>>, <<99>>, <<100>>, <<51>>, <<102>>,
       <<103>>, <<104>>, <<49>>, <<106>>, <<107>>, <<49>>,
       <<109>>, <<110>>, <<48>>, <<112>>, <<57>>, <<114>>,
       <<53>>, <<55>>, <<117>>, <<118>>, <<119>>, <<120>>,
       <<121>>, <<50>> >>
LeetThree ==
    << <<52>>, <<56>>, <<99>>, <<100>>, <<51>>, <<102>>,
       <<54>>, <<104>>, <<39>>, <<106>>, <<107>>, <<49>>,
       <<109>>, <<110>>, <<48>>, <<112>>, <<57>>, <<114>>,
       <<53>>, <<55>>, <<117>>, <<118>>, <<119>>, <<120>>,
       <<39, 47>>, <<50>> >>
LeetFour ==
    << <<64>>, <<56>>, <<99>>, <<100>>, <<51>>, <<102>>,
       <<54>>, <<104>>, <<39>>, <<106>>, <<107>>, <<49>>,
       <<109>>, <<110>>, <<48>>, <<112>>, <<57>>, <<114>>,
       <<53>>, <<55>>, <<117>>, <<118>>, <<119>>, <<120>>,
       <<39, 47>>, <<50>> >>
LeetFive ==
    << <<64>>, <<124, 51>>, <<99>>, <<100>>, <<51>>, <<102>>,
       <<54>>, <<35>>, <<33>>, <<55>>, <<124, 60>>, <<49>>,
       <<109>>, <<110>>, <<48>>, <<124, 62>>, <<57>>, <<124, 50>>,
       <<36>>, <<55>>, <<117>>, <<92, 47>>, <<119>>, <<120>>,
       <<39, 47>>, <<50>> >>
LeetSix ==
    << <<64>>, <<124, 51>>, <<99>>, <<124, 41>>, <<38>>, <<124, 61>>,
       <<54>>, <<35>>, <<33>>, <<44, 124>>, <<124, 60>>, <<49>>,
       <<109>>, <<110>>, <<48>>, <<124, 62>>, <<57>>, <<124, 50>>,
       <<36>>, <<55>>, <<117>>, <<92, 47>>, <<119>>, <<120>>,
       <<39, 47>>, <<50>> >>
LeetSeven ==
    << <<64>>, <<124, 51>>, <<91>>, <<124, 41>>, <<38>>, <<124, 61>>,
       <<54>>, <<35>>, <<33>>, <<44, 124>>, <<124, 60>>, <<49>>,
       <<94, 94>>, <<94, 47>>, <<48>>, <<124, 42>>, <<57>>, <<124, 50>>,
       <<53>>, <<55>>, <<40, 95, 41>>, <<92, 47>>, <<92, 47, 92, 47>>, <<62, 60>>,
       <<39, 47>>, <<50>> >>
LeetEight ==
    << <<64>>, <<56>>, <<40>>, <<124, 41>>, <<38>>, <<124, 61>>,
       <<54>>, <<124, 45, 124>>, <<33>>, <<95, 124>>, <<124, 40>>, <<49>>,
       <<124, 92, 47, 124>>, <<124, 92, 124>>, <<40, 41>>, <<124, 62>>, <<40, 44, 41>>, <<124, 50>>,
       <<36>>, <<124>>, <<124, 95, 124>>, <<92, 47>>, <<92, 94, 47>>, <<41, 40>>,
       <<39, 47>>, <<34, 47, 95>> >>
LeetNine ==
    << <<64>>, <<56>>, <<40>>, <<124, 41>>, <<38>>, <<124, 61>>,
       <<54>>, <<124, 45, 124>>, <<33>>, <<95, 124>>, <<124, 123>>, <<124, 95>>,
       <<47, 92, 47, 92>>, <<124, 92, 124>>, <<40, 41>>, <<124, 62>>, <<40, 44, 41>>, <<124, 50>>,
       <<36>>, <<124>>, <<124, 95, 124>>, <<92, 47>>, <<92, 94, 47>>, <<41, 40>>,
       <<39, 47>>, <<34, 47, 95>> >>

\* LeetReplacementTable::get
LeetTable(level) ==
    CASE level = 1 -> LeetOne
      [] level = 2 -> LeetTwo
      [] level = 3 -> LeetThree
      [] level = 4 -> LeetFour
      [] level = 5 -> LeetFive
      [] level = 6 -> LeetSix
      [] level = 7 -> LeetSeven
      [] level = 8 -> LeetEight
      [] level = 9 -> LeetNine

\* A lookup that starts one code point early, at 0x60
ReplaceFromBacktick(table, c) ==
    IF c >= 96 /\ c - 96 < Len(table) THEN table[c - 96 + 1] ELSE <<c>>

\* LeetReplacementTable::conditionally_replace: checked_sub(0x61), then
\* lookup_table.get(index)
ConditionallyReplace(table, c) ==
    IF c >= 97 /\ c - 97 < Len(table) THEN table[c - 97 + 1] ELSE <<c>>

\* The table applied to the characters of the input as they are
ReplaceWithoutLowercase(level, input) ==
    Concat([k \in 1..Len(input) |->
               IF input[k] \in 97..122
               THEN LeetTable(level)[input[k] - 96]
               ELSE <<input[k]>>])

\* LeetReplacementTable::leetify
Leetify(level, input) ==
    LET lower == ToLowercase(input)
    IN  Concat([k \in 1..Len(lower) |->
                   ConditionallyReplace(LeetTable(level), lower[k])])

\* pre_leet_level / post_leet are Option<LeetReplacementTable>: 0 is None
OptLeetify(level, input) == IF level = 0 THEN input ELSE Leetify(level, input)

(***************************************************************************)
(* Bytes of a string.                                                      *)
(***************************************************************************)
\* str::as_bytes: the UTF-8 encoding
Utf8Char(c) ==
    IF c < 128 THEN <<c>>
    ELSE IF c < 2048 THEN <<192 + (c \div 64), 128 + (c % 64)>>
    ELSE IF c < 65536
         THEN <<224 + (c \div 4096), 128 + ((c \div 64) % 64), 128 + (c % 64)>>
    ELSE <<240 + (c \div 262144), 128 + ((c \div 4096) % 64),
           128 + ((c \div 64) % 64), 128 + (c % 64)>>

AsBytes(s) == Concat([k \in 1..Len(s) |-> Utf8Char(s[k])])

\* str::encode_utf16: one code unit, or a surrogate pair above the BMP
Utf16Char(c) ==
    IF c < 65536 THEN <<c>>
    ELSE <<55296 + ((c - 65536) \div 1024), 56320 + ((c - 65536) % 1024)>>

EncodeUtf16(s) == Concat([k \in 1..Len(s) |-> Utf16Char(s[k])])

\* The UTF-8 bytes in the place of the low bytes
Utf8InsteadOfLowBytes(s) == AsBytes(s)

\* yeet_upper_bytes: wide_char as u8
YeetUpperBytes(s) ==
    LET wide == EncodeUtf16(s) IN [k \in 1..Len(wide) |-> wide[k] % 256]

\* usize::to_string: decimal digits, most significant first
RECURSIVE UsizeToString(_)
UsizeToString(n) ==
    IF n < 10 THEN <<48 + n>> ELSE Append(UsizeToString(n \div 10), 48 + (n % 10))

(***************************************************************************)
(* Numbers.  A u128 is modelled by its 16 big-endian bytes; a [u32; N] by  *)
(* its N limbs, most significant first, each limb by its 4 big-endian      *)
(* bytes.  Divisors (the alphabet size) are plain integers.                *)
(***************************************************************************)
\* Long division of the big-endian bytes bs by d, entered with the carry
\* (running remainder) c: the quotient bytes and the final remainder
RECURSIVE DivBytes(_, _, _, _)
DivBytes(bs, d, c, out) ==
    IF bs = <<>> THEN [result |-> out, remainder |-> c]
    ELSE LET dividend == c * 256 + Head(bs)
         IN  DivBytes(Tail(bs), d, dividend % d, Append(out, dividend \div d))

\* u128::from_be_bytes
U128FromBeBytes(hash) == [k \in 1..16 |-> hash[k]]

\* ToI32Array::to_int_array: u32::from_be_bytes of each group of 4 bytes
ToIntArray(hash) ==
    [k \in 1..(Len(hash) \div 4) |-> SubSeq(hash, 4 * k - 3, 4 * k)]

\* Division<u128> for u128 (UseGenericDivision): self / divisor, self % divisor
DivideU128(value, divisor) == DivBytes(value, divisor, 0, <<>>)

\* Division<usize> for [u32; N]: fold over the limbs, most significant first;
\* each limb is replaced by ((carry << 32) + limb) / divisor and the carry by
\* the rest
RECURSIVE DivideArrayFold(_, _, _, _)
DivideArrayFold(limbs, divisor, carry, out) ==
    IF limbs = <<>> THEN [result |-> out, remainder |-> carry]
    ELSE LET step == DivBytes(Head(limbs), divisor, carry, <<>>)
         IN  DivideArrayFold(Tail(limbs), divisor, step.remainder,
                             Append(out, step.result))

\* Each limb divided on its own, nothing carried from limb to limb
DivideEachLimbAlone(value, divisor) ==
    [result |-> [k \in 1..Len(value) |->
                    DivBytes(value[k], divisor, 0, <<>>).result],
     remainder |-> IF value = <<>> THEN 0
                   ELSE DivBytes(value[Len(value)], divisor, 0, <<>>).remainder]

DivideArray(value, divisor) == DivideArrayFold(value, divisor, 0, <<>>)

\* Division::divide, by the type of the dividend
Divide(kind, value, divisor) ==
    IF kind = "u128" THEN DivideU128(value, divisor)
    ELSE DivideArray(value, divisor)

\* Division::is_zero
IsZero(kind, value) ==
    IF kind = "u128" THEN \A k \in 1..Len(value) : value[k] = 0
    ELSE \A k \in 1..Len(value) : \A j \in 1..Len(value[k]) : value[k][j] = 0

\* An iterator that starts with Some(value) whatever the value
RemaindersNewAlwaysSome(kind, value, divisor) ==
    [value |-> <<value>>, divisor |-> divisor, out |-> <<>>]

\* Remainders::new: value is an Option, <<>> for None and <<v>> for Some(v);
\* out collects what next() has yielded
RemaindersNew(kind, value, divisor) ==
    [value |-> IF IsZero(kind, value) THEN <<>> ELSE <<value>>,
     divisor |-> divisor,
     out |-> <<>>]

\* Remainders::next: None leaves the iterator as it is
RemaindersNext(kind, r) ==
    IF r.value = <<>> THEN r
    ELSE LET d == Divide(kind, r.value[1], r.divisor)
         IN  [value |-> IF IsZero(kind, d.result) THEN <<>> ELSE <<d.result>>,
              divisor |-> r.divisor,
              out |-> Append(r.out, d.remainder)]

\* Up to n calls of next(), ended by the first None
RECURSIVE RemaindersNextTimes(_, _, _)
RemaindersNextTimes(kind, r, n) ==
    IF n = 0 \/ r.value = <<>> THEN r
    ELSE IF n = 1 THEN RemaindersNext(kind, r)
    ELSE LET first == RemaindersNextTimes(kind, r, n \div 2)
         IN  IF first.value = <<>> THEN first
             ELSE RemaindersNextTimes(kind, first, n - (n \div 2))

\* The number of bits of a value: no value has more digits in a base >= 2
BitWidth(kind, value) ==
    IF kind = "u128" THEN 8 * Len(value) ELSE 32 * Len(value)

\* value.calc_remainders(divisor), collected: next() is called until it
\* returns None; the remainders come least significant first
CalcRemainders(kind, value, divisor) ==
    RemaindersNextTimes(kind, RemaindersNew(kind, value, divisor),
                        BitWidth(kind, value)).out

(***************************************************************************)
(* Hashers.  The hash functions are supplied by the caller (trait          *)
(* HasherList); the library only requires the digest widths.  The model    *)
(* runs the library against four implementations.                          *)
(***************************************************************************)
Primitives == {"MD4", "MD5", "SHA1", "SHA256", "RIPEMD160"}

\* Hasher::Output: [u8; 16], [u8; 20] or [u8; 32]
DigestBytes(prim) ==
    CASE prim \in {"MD4", "MD5"} -> 16
      [] prim \in {"SHA1", "RIPEMD160"} -> 20
      [] prim = "SHA256" -> 32

\* The constant digests of the benchmark's mock hashers
MockDigest ==
    <<156, 4, 123, 54, 91, 85, 34, 159, 243, 210, 35, 41, 31, 34, 75, 94,
      156, 4, 123, 54, 91, 85, 34, 159, 243, 210, 35, 41, 31, 34, 75, 94>>

MockDigest20 ==
    <<156, 4, 123, 54, 91, 85, 34, 159, 243, 210, 35, 41, 31, 34, 75, 94,
      46, 49, 13, 24>>

\* MD5 of the three bytes "a01"
Md5OfA01 ==
    <<0, 210, 167, 53, 81, 26, 113, 176, 216, 68, 154, 87, 207, 37, 32, 170>>

\* n bytes b
Repeat(b, n) == [k \in 1..n |-> b]

\* "Hi There"
HiThere == <<72, 105, 32, 84, 104, 101, 114, 101>>

\* "Test Using Larger Than Block-Size Key - Hash Key First"
HashKeyFirst ==
    <<84, 101, 115, 116, 32, 85, 115, 105, 110, 103, 32, 76, 97, 114, 103, 101,
      114, 32, 84, 104, 97, 110, 32, 66, 108, 111, 99, 107, 45, 83, 105, 122,
      101, 32, 75, 101, 121, 32, 45, 32, 72, 97, 115, 104, 32, 75, 101, 121,
      32, 70, 105, 114, 115, 116>>

\* The MD5 digests the model knows (<<>>: not known): of "a01", and of the
\* messages that arise in HMAC-MD5 of "Hi There" under the key of 16 bytes
\* 0x0b and of HashKeyFirst under the key of 80 bytes 0xaa
Md5Known(input) ==
    CASE input = <<97, 48, 49>> -> <<Md5OfA01>>
      [] input = Repeat(61, 16) \o Repeat(54, 48) \o HiThere ->
             << <<144, 29, 35, 115, 46, 220, 192, 241, 161, 6, 83, 47, 107,
                  229, 236, 235>> >>
      [] input = Repeat(87, 16) \o Repeat(92, 48) \o
                     <<144, 29, 35, 115, 46, 220, 192, 241, 161, 6, 83, 47,
                       107, 229, 236, 235>> ->
             << <<146, 148, 114, 122, 54, 56, 187, 28, 19, 244, 142, 248, 21,
                  139, 252, 157>> >>
      [] input = Repeat(170, 80) ->
             << <<143, 182, 171, 1, 132, 0, 35, 236, 69, 62, 205, 236, 115,
                  220, 27, 102>> >>
      [] input = <<185, 128, 157, 55, 178, 54, 21, 218, 115, 8, 251, 218, 69,
                   234, 45, 80>> \o Repeat(54, 48) \o HashKeyFirst ->
             << <<95, 138, 200, 116, 252, 89, 129, 74, 74, 153, 109, 215, 228,
                  206, 22, 238>> >>
      [] input = <<211, 234, 247, 93, 216, 92, 127, 176, 25, 98, 145, 176, 47,
                   128, 71, 58>> \o Repeat(92, 48) \o
                     <<95, 138, 200, 116, 252, 89, 129, 74, 74, 153, 109, 215,
                       228, 206, 22, 238>> ->
             << <<107, 26, 183, 254, 75, 215, 191, 143, 11, 98, 230, 206, 97,
                  185, 208, 205>> >>
      [] OTHER -> <<>>

\* A polynomial checksum of the input modulo the prime 32749: the checksum
\* h of a sequence and 33^length, computed from the two halves
RECURSIVE PolyFold(_)
PolyFold(input) ==
    IF Len(input) = 0 THEN [h |-> 0, m |-> 1]
    ELSE IF Len(input) = 1 THEN [h |-> input[1] + 1, m |-> 33]
    ELSE LET half == Len(input) \div 2
             a == PolyFold(SubSeq(input, 1, half))
             b == PolyFold(SubSeq(input, half + 1, Len(input)))
         IN  [h |-> ((a.h * b.m) + b.h) % 32749, m |-> (a.m * b.m) % 32749]

Hashers == {"zero", "mock", "sum", "md5"}

\* Hasher::hash of implementation h:
\*   "zero"  a mock returning the all-zero digest
\*   "mock"  the benchmark's mock: a constant digest
\*   "sum"   a checksum: the digest value is the byte sum modulo 4
\*   "md5"   MD5 where the model knows the digest, else the mock's constant
\*   "poly"  a polynomial checksum: the digest depends on every byte of the
\*           input and on its position
Hash(h, prim, input) ==
    LET n == DigestBytes(prim)
    IN  CASE h = "zero" -> [k \in 1..n |-> 0]
          [] h = "mock" ->
               IF n = 20 THEN MockDigest20 ELSE SubSeq(MockDigest, 1, n)
          [] h = "sum" ->
               [k \in 1..n |-> IF k = n THEN SumSeq(input) % 4 ELSE 0]
          [] h = "md5" ->
               IF prim = "MD5" /\ Md5Known(input) # <<>>
               THEN Md5Known(input)[1]
               ELSE IF n = 20 THEN MockDigest20 ELSE SubSeq(MockDigest, 1, n)
          [] h = "poly" ->
               LET sum == PolyFold(input).h
               IN  [k \in 1..n |->
                       IF k = n THEN sum % 256
                       ELSE IF k = n - 1 THEN sum \div 256
                       ELSE (sum * k) % 256]

(***************************************************************************)
(* HMAC with block size 64.                                                *)
(***************************************************************************)
\* u8 ^ u8
RECURSIVE Xor(_, _)
Xor(a, b) ==
    IF a = 0 /\ b = 0 THEN 0
    ELSE ((a + b) % 2) + 2 * Xor(a \div 2, b \div 2)

\* An HMAC that hashes every key of 64 bytes or more
HmacHashingFullBlockKey(h, prim, key, data) ==
    LET keyOrHash == IF Len(key) >= 64 THEN Hash(h, prim, key) ELSE key
        padded == [k \in 1..64 |->
                      IF k <= Len(keyOrHash) THEN keyOrHash[k] ELSE 0]
        inner_pad == [k \in 1..64 |-> Xor(padded[k], 54)]
        outer_pad == [k \in 1..64 |-> Xor(padded[k], 92)]
        hash == Hash(h, prim, inner_pad \o data)
    IN  Hash(h, prim, outer_pad \o hash)

\* hmac::hmac
Hmac(h, prim, key, data) ==
    LET keyOrHash == IF Len(key) > 64 THEN Hash(h, prim, key) ELSE key
        padded == [k \in 1..64 |->
                      IF k <= Len(keyOrHash) THEN keyOrHash[k] ELSE 0]
        inner_pad == [k \in 1..64 |-> Xor(padded[k], 54)]
        outer_pad == [k \in 1..64 |-> Xor(padded[k], 92)]
        hash == Hash(h, prim, inner_pad \o data)
    IN  Hash(h, prim, outer_pad \o hash)

(***************************************************************************)
(* Algorithm selection and the parameters of a password part.              *)
(***************************************************************************)
HashAlgorithms ==
    {"Md4", "HmacMd4", "Md5", "Md5Version06", "HmacMd5", "HmacMd5Version06",
     "Sha1", "HmacSha1", "Sha256", "HmacSha256", "Ripemd160", "HmacRipemd160"}

\* AlgoSelection::from_settings_algorithm
FromSettingsAlgorithm(a) ==
    CASE a = "Md5Version06" -> [family |-> "V06", hmac |-> FALSE, algo |-> "MD5"]
      [] a = "HmacMd5Version06" -> [family |-> "V06", hmac |-> TRUE, algo |-> "MD5"]
      [] a = "Md4" -> [family |-> "Modern", hmac |-> FALSE, algo |-> "MD4"]
      [] a = "HmacMd4" -> [family |-> "Modern", hmac |-> TRUE, algo |-> "MD4"]
      [] a = "Md5" -> [family |-> "Modern", hmac |-> FALSE, algo |-> "MD5"]
      [] a = "HmacMd5" -> [family |-> "Modern", hmac |-> TRUE, algo |-> "MD5"]
      [] a = "Sha1" -> [family |-> "Modern", hmac |-> FALSE, algo |-> "SHA1"]
      [] a = "HmacSha1" -> [family |-> "Modern", hmac |-> TRUE, algo |-> "SHA1"]
      [] a = "Sha256" -> [family |-> "Modern", hmac |-> FALSE, algo |-> "SHA256"]
      [] a = "HmacSha256" -> [family |-> "Modern", hmac |-> TRUE, algo |-> "SHA256"]
      [] a = "Ripemd160" -> [family |-> "Modern", hmac |-> FALSE, algo |-> "RIPEMD160"]
      [] a = "HmacRipemd160" -> [family |-> "Modern", hmac |-> TRUE, algo |-> "RIPEMD160"]

\* "0123456789abcdef"
HexCharacters ==
    <<48, 49, 50, 51, 52, 53, 54, 55, 56, 57, 97, 98, 99, 100, 101, 102>>

\* The user's alphabet for every algorithm
UserCharacters(selection, characters) == Graphemes(characters)

\* The alphabet a part is written in: V06 disregards the user's characters
PartCharacters(selection, characters) ==
    IF selection.family = "V06" THEN Graphemes(HexCharacters)
    ELSE Graphemes(characters)

\* The leet level applied to the hash input (0: none)
PreLeetLevel(use_leet) ==
    IF use_leet.mode \in {"Before", "BeforeAndAfter"} THEN use_leet.level ELSE 0

\* PasswordPartParameters::from_public_parameters
PartParametersFromPublic(hash_algorithm, use_leet, characters) ==
    LET selection == FromSettingsAlgorithm(hash_algorithm)
    IN  [hash_algorithm |-> selection,
         pre_leet_level |-> PreLeetLevel(use_leet),
         characters |-> PartCharacters(selection, characters)]

\* PasswordAssemblyParameters::from_public_parameters
AssemblyParametersFromPublic(prefix, suffix, password_length) ==
    [suffix |-> suffix,
     prefix |-> prefix,
     password_length |-> password_length,
     suffix_length |-> GraphemeCount(suffix),
     prefix_length |-> GraphemeCount(prefix)]

(***************************************************************************)
(* One password part.                                                      *)
(***************************************************************************)
\* The grapheme indices left as the division yields them
WithoutResize(input) == input

\* yoink_additional_graphemes_for_06_if_needed: Vec::resize(32, 0)
YoinkAdditionalGraphemes(input) ==
    [k \in 1..32 |-> IF k <= Len(input) THEN input[k] ELSE 0]

\* GetGraphemesIterator, run to the end: the graphemes of the indices in
\* inner, up to the first index that graphemes.get(i) does not find
GetGraphemes(graphemes, inner) ==
    LET missing == {k \in 1..Len(inner) : inner[k] >= Len(graphemes)}
        n == IF missing = {} THEN Len(inner)
             ELSE (CHOOSE k \in missing : \A m \in missing : k <= m) - 1
    IN  [k \in 1..n |-> graphemes[inner[k] + 1]]

\* The dividend type of a digest: u128 for 16 bytes, [u32; N] otherwise
DividendKind(prim) == IF DigestBytes(prim) = 16 THEN "u128" ELSE "array"

\* to_dividend: u128::from_be_bytes or ToI32Array::to_int_array
ToDividend(prim, hash) ==
    IF DividendKind(prim) = "u128" THEN U128FromBeBytes(hash)
    ELSE ToIntArray(hash)

\* The digest of modern_message_to_grapheme_indices: T::hash(data.as_bytes())
ModernMessageHash(h, prim, data) == Hash(h, prim, AsBytes(data))

\* modern_message_to_grapheme_indices
ModernMessageToGraphemeIndices(h, prim, data, divisor) ==
    CalcRemainders(DividendKind(prim),
                   ToDividend(prim, ModernMessageHash(h, prim, data)), divisor)

\* An HMAC of the UTF-8 bytes of key and data
HmacOfUtf8(h, prim, key, data) == Hmac(h, prim, AsBytes(key), AsBytes(data))

\* The digest of modern_hmac_to_grapheme_indices
ModernHmacHash(h, prim, key, data) ==
    Hmac(h, prim, YeetUpperBytes(key), YeetUpperBytes(data))

\* modern_hmac_to_grapheme_indices
ModernHmacToGraphemeIndices(h, prim, key, data, divisor) ==
    CalcRemainders(DividendKind(prim),
                   ToDividend(prim, ModernHmacHash(h, prim, key, data)),
                   divisor)

\* The digest of generate_password_part_v06
V06Hash(h, second_part, message, pre_leet_level) ==
    Hash(h, "MD5",
         YeetUpperBytes(OptLeetify(pre_leet_level, message \o second_part)))

\* generate_password_part_v06: the grapheme indices, least significant first
V06Indices(h, second_part, message, pre_leet_level, characters) ==
    YoinkAdditionalGraphemes(
        CalcRemainders("u128",
                       U128FromBeBytes(V06Hash(h, second_part, message,
                                               pre_leet_level)),
                       Len(characters)))

\* The digest of generate_password_part_v06_hmac
V06HmacHash(h, data, key, pre_leet_level) ==
    Hmac(h, "MD5", YeetUpperBytes(OptLeetify(pre_leet_level, key)),
         YeetUpperBytes(OptLeetify(pre_leet_level, data)))

\* generate_password_part_v06_hmac: the grapheme indices
V06HmacIndices(h, data, key, pre_leet_level, characters) ==
    YoinkAdditionalGraphemes(
        CalcRemainders("u128",
                       U128FromBeBytes(V06HmacHash(h, data, key,
                                                   pre_leet_level)),
                       Len(characters)))

\* generate_password_part_modern_hmac: the grapheme indices
ModernHmacIndices(h, data, key, algo, pre_leet_level, characters) ==
    ModernHmacToGraphemeIndices(h, algo, OptLeetify(pre_leet_level, key),
                                OptLeetify(pre_leet_level, data),
                                Len(characters))

\* Grapheme indices of a message whose two halves get pre-leet one by one
LeetEachHalf(h, second_part, message, algo, pre_leet_level, characters) ==
    ModernMessageToGraphemeIndices(
        h, algo,
        OptLeetify(pre_leet_level, message) \o
            OptLeetify(pre_leet_level, second_part),
        Len(characters))

\* generate_password_part_modern: the grapheme indices
ModernIndices(h, second_part, message, algo, pre_leet_level, characters) ==
    ModernMessageToGraphemeIndices(
        h, algo, OptLeetify(pre_leet_level, message \o second_part),
        Len(characters))

\* The strings generate_password_part hashes, after pre-leet: the message
\* and, for HMAC, the key (<<>>: no key)
PartHashStrings(data, key, parameters) ==
    LET pre == parameters.pre_leet_level
    IN  IF parameters.hash_algorithm.hmac
        THEN [key |-> <<OptLeetify(pre, key)>>,
              message |-> OptLeetify(pre, data)]
        ELSE [key |-> <<>>, message |-> OptLeetify(pre, key \o data)]

\* The digest that generate_password_part turns into grapheme indices
PartDigest(h, data, key, parameters) ==
    LET sel == parameters.hash_algorithm
        pre == parameters.pre_leet_level
    IN  CASE sel.family = "V06" /\ sel.hmac -> V06HmacHash(h, data, key, pre)
          [] sel.family = "V06" /\ ~sel.hmac -> V06Hash(h, data, key, pre)
          [] sel.family = "Modern" /\ sel.hmac ->
               ModernHmacHash(h, sel.algo, OptLeetify(pre, key),
                              OptLeetify(pre, data))
          [] sel.family = "Modern" /\ ~sel.hmac ->
               ModernMessageHash(h, sel.algo, OptLeetify(pre, key \o data))

\* The Vec<usize> grapheme_indices of generate_password_part
PartIndices(h, data, key, parameters) ==
    LET sel == parameters.hash_algorithm
        pre == parameters.pre_leet_level
        chars == parameters.characters
    IN  CASE sel.family = "V06" /\ sel.hmac ->
               V06HmacIndices(h, data, key, pre, chars)
          [] sel.family = "V06" /\ ~sel.hmac ->
               V06Indices(h, data, key, pre, chars)
          [] sel.family = "Modern" /\ sel.hmac ->
               ModernHmacIndices(h, data, key, sel.algo, pre, chars)
          [] sel.family = "Modern" /\ ~sel.hmac ->
               ModernIndices(h, data, key, sel.algo, pre, chars)

\* generate_password_part: the graphemes of
\* GetGraphemesIterator { graphemes: characters, inner: indices.rev() }
GeneratePasswordPart(h, data, key, parameters) ==
    GetGraphemes(parameters.characters,
                 Reverse(PartIndices(h, data, key, parameters)))

\* A key derivative that carries the counter of part 0 too
KeyWithCounter(key, i) == key \o <<10>> \o UsizeToString(i)

\* get_modified_key
GetModifiedKey(key, i) ==
    IF i = 0 THEN key ELSE key \o <<10>> \o UsizeToString(i)

(***************************************************************************)
(* Assembly.                                                               *)
(***************************************************************************)
\* combine_prefix_password_suffix: password is a list of graphemes
CombinePrefixPasswordSuffix(password, assembly_settings) ==
    Concat(Take(Take(Graphemes(assembly_settings.prefix) \o password,
                     SaturatingSub(assembly_settings.password_length,
                                   assembly_settings.suffix_length))
                \o Graphemes(assembly_settings.suffix),
                assembly_settings.password_length))

\* needed_password_length of generate_password_verified_with_post_leet; on
\* the other path the number of graphemes take() draws from the parts
NeededPasswordLength(assembly_settings) ==
    SaturatingSub(SaturatingSub(assembly_settings.password_length,
                                assembly_settings.suffix_length),
                  assembly_settings.prefix_length)

(***************************************************************************)
(* The calls the model makes.                                              *)
(***************************************************************************)
NotAtAll == [mode |-> "NotAtAll", level |-> 0]

\* The use_leet arguments of the grid
LeetChoices ==
    {NotAtAll,
     [mode |-> "Before", level |-> 1],
     [mode |-> "After", level |-> 1],
     [mode |-> "BeforeAndAfter", level |-> 9]}

\* "ab"; U+0301 followed by "a" (two graphemes: a lone combining accent,
\* then "a"); capital sigma followed by "h"
GridCharacters == {<<97, 98>>, <<769, 97>>, <<931, 104>>}

\* "": no grapheme; "a", U+0301 and "a" followed by U+0301: one grapheme
ShortCharacters == {<<>>, <<97>>, <<769>>, <<97, 769>>}

\* "", "a" and "ab"
GridPrefixes == {<<>>, <<97>>, <<97, 98>>}

\* "" and U+0301 followed by "b"
GridSuffixes == {<<>>, <<769, 98>>}

MakeArgs(data, key, algorithm, use_leet, characters, username, modifier, password_length, prefix, suffix) ==
    [data |-> data, key |-> key, hash_algorithm |-> algorithm,
     use_leet |-> use_leet, characters |-> characters,
     username |-> username, modifier |-> modifier,
     password_length |-> password_length, prefix |-> prefix,
     suffix |-> suffix]

\* Valid calls: data "01", key "a", every algorithm
GridArgs ==
    {MakeArgs(<<48, 49>>, <<97>>, alg, leet, chars, <<>>, <<>>, len, pre, suf) :
        alg \in HashAlgorithms, leet \in LeetChoices, chars \in GridCharacters,
        len \in 0..MaxLen, pre \in GridPrefixes, suf \in GridSuffixes}

\* Calls that validation may reject
ValidationArgs ==
    {MakeArgs(data, key, alg, NotAtAll, chars, <<>>, <<>>, 1, <<>>, <<>>) :
        data \in {<<>>, <<48, 49>>}, key \in {<<>>, <<97>>},
        alg \in {"Md5", "Md5Version06"},
        chars \in ShortCharacters \cup {<<97, 98>>}}

\* "whatevr"
Whatevr == <<119, 104, 97, 116, 101, 118, 114>>

\* "pre" and "suffix"
Pre == <<112, 114, 101>>

Suffix == <<115, 117, 102, 102, 105, 120>>

\* Calls against the hashers with full-width digests: the calls of the
\* integration tests whose digests the model knows
\* (v06_compatibility_leading_zeros, regular_md5_no_leading_zeros), the
\* same for every algorithm, and calls in the manner of
\* test_suffix_with_insufficient_length
ScenarioArgs ==
    {MakeArgs(<<48, 49>>, <<97>>, alg, leet, chars, <<>>, <<>>, 8,
              <<>>, <<>>) :
        alg \in HashAlgorithms, chars \in {Whatevr, HexCharacters},
        leet \in {NotAtAll, [mode |-> "After", level |-> 9]}}
    \cup
    {MakeArgs(<<48, 49>>, <<97>>, "HmacRipemd160", leet, Whatevr,
              <<117>>, <<109>>, 5, Pre, Suffix) :
        leet \in {[mode |-> "Before", level |-> 9],
                  [mode |-> "BeforeAndAfter", level |-> 9]}}

\* Calls with text outside ASCII: key "a" and capital sigma, data "b" and
\* U+1F600 (outside the BMP), username U+00E9
EncodingArgs ==
    {MakeArgs(<<98, 128512>>, <<97, 931>>, alg, leet, <<97, 98>>, <<233>>,
              <<>>, 2, <<>>, <<>>) :
        alg \in HashAlgorithms,
        leet \in {NotAtAll, [mode |-> "Before", level |-> 1],
                  [mode |-> "BeforeAndAfter", level |-> 9]}}

\* Calls whose parts join at a grapheme that starts with U+0301: data "02",
\* key "a", the characters "a", LINE FEED and U+0301 (three graphemes: the
\* accent does not attach to a control), leet after the generation
JoinArgs ==
    {MakeArgs(<<48, 50>>, <<97>>, alg, [mode |-> "After", level |-> 1],
              <<97, 10, 769>>, <<>>, <<>>, 3, <<>>, <<>>) :
        alg \in HashAlgorithms}

\* The calls made against hasher h
AsciiArgs == GridArgs \cup ValidationArgs

AllArgs == AsciiArgs \cup EncodingArgs \cup JoinArgs

ArgSet(h) ==
    IF h \in {"md5", "mock"} THEN ScenarioArgs
    ELSE IF h = "sum" THEN AllArgs
    ELSE AsciiArgs

(***************************************************************************)
(* State.                                                                  *)
(***************************************************************************)
VARIABLES
    hasher,    \* the HasherList the library is built with
    pc,        \* "idle", "error", "generating" or "done"
    args,      \* the arguments of the current call
    pm,        \* the PasswordMaker: <<>> or <<record>>
    i,         \* the counter of the next password part
    password,  \* no post-leet: the graphemes drawn from the parts so far
    st,        \* post-leet: the accumulated string (s.0 of the fold)
    count,     \* post-leet: the running grapheme count (s.1 of the fold)
    result,    \* the returned password when pc = "done"
    error,     \* the returned GenerationError when pc = "error"
    prev,      \* the previous completed call: <<>> or <<[args, result]>>
    requested, \* the parts requested by the current call, in order: the
               \* counter, the key generate_password_part was given and
               \* the graphemes of the part
    calc       \* a call of one of the library's functions on its own:
               \* <<>> or a record of its input and its output

vars == <<hasher, pc, args, pm, i, password, st, count, result, error, prev, requested, calc>>

\* A test that counts scalar values where the code counts graphemes
HasTwoScalarValues(characters) == Len(characters) >= 2

\* PasswordMaker::is_suitable_as_output_characters:
\* characters.graphemes(true).nth(1).is_some()
IsSuitableAsOutputCharacters(characters) == Len(Graphemes(characters)) >= 2

\* Post-leet for the mode After alone
PostLeetOnlyForAfter(use_leet) ==
    IF use_leet.mode = "After" THEN use_leet.level ELSE 0

\* The post_leet field built by validate_input (0: None)
PostLeetLevel(use_leet) ==
    IF use_leet.mode \in {"After", "BeforeAndAfter"} THEN use_leet.level ELSE 0

\* A validation that looks at the key before it looks at the data
ValidationErrorKeyFirst(a) ==
    IF Len(AsBytes(a.key)) = 0 THEN "MissingMasterPassword"
    ELSE IF Len(AsBytes(a.data)) = 0 THEN "MissingTextToUse"
    ELSE IF ~IsSuitableAsOutputCharacters(a.characters)
         THEN "InsufficientCharset"
    ELSE ""

\* The Err(..) of validate_input, "" when the input is accepted
ValidationError(a) ==
    IF Len(AsBytes(a.data)) = 0 THEN "MissingTextToUse"
    ELSE IF Len(AsBytes(a.key)) = 0 THEN "MissingMasterPassword"
    ELSE IF ~IsSuitableAsOutputCharacters(a.characters)
         THEN "InsufficientCharset"
    ELSE ""

\* The Ok(PasswordMaker {..}) of validate_input
MakePasswordMaker(a) ==
    [data |-> a.data,
     key |-> a.key,
     username |-> a.username,
     modifier |-> a.modifier,
     password_part_parameters |->
         PartParametersFromPublic(a.hash_algorithm, a.use_leet, a.characters),
     post_leet |-> PostLeetLevel(a.use_leet),
     assembly_settings |->
         AssemblyParametersFromPublic(a.prefix, a.suffix, a.password_length)]

\* An accumulator that keeps the grapheme count of the call before
LeftoverAccumulator == [st |-> <<>>, count |-> count]

\* The accumulator the fold of the post-leet path starts from
InitialAccumulator == [st |-> <<>>, count |-> 0]

\* The part iterator of the other path starts without a grapheme
InitialPassword == <<>>

Init ==
    /\ hasher \in Hashers
    /\ pc = "idle"
    /\ args = <<>>
    /\ pm = <<>>
    /\ i = 0
    /\ password = <<>>
    /\ st = <<>>
    /\ count = 0
    /\ result = <<>>
    /\ error = ""
    /\ prev = <<>>
    /\ requested = <<>>
    /\ calc = <<>>

\* The calls that may follow a completed call with arguments b: the same
\* call again, or the call with other characters
Following(h, b) ==
    {b} \cup {a \in {[b EXCEPT !.characters = c] :
                        c \in GridCharacters \cup {Whatevr, HexCharacters}} :
                 a \in ArgSet(h)}

\* generate_password: validate_input, and generate() entered when the input
\* is accepted
Call(a) ==
    /\ pc \in {"idle", "done"}
    /\ pc = "done" => a \in Following(hasher, args)
    /\ args' = a
    /\ prev' = IF pc = "done" THEN <<[args |-> args, result |-> result]>>
               ELSE <<>>
    /\ error' = ValidationError(a)
    /\ IF ValidationError(a) # ""
       THEN /\ pc' = "error"
            /\ pm' = <<>>
       ELSE /\ pc' = "generating"
            /\ pm' = <<MakePasswordMaker(a)>>
    /\ i' = 0
    /\ password' = InitialPassword
    /\ st' = InitialAccumulator.st
    /\ count' = InitialAccumulator.count
    /\ result' = <<>>
    /\ requested' = <<>>
    /\ UNCHANGED <<hasher, calc>>

\* modified_data of generate_password_verified_input
ModifiedData(p) == p.data \o p.username \o p.modifier

\* A fold that goes on until the count exceeds the needed length
NeedsPartUntilLonger ==
    LET p == pm[1]
        needed == NeededPasswordLength(p.assembly_settings)
    IN  IF p.post_leet = 0 THEN Len(password) < needed
        ELSE i = 0 \/ count <= needed

\* TRUE iff the running generate() asks for password part i
NeedsPart ==
    LET p == pm[1]
        needed == NeededPasswordLength(p.assembly_settings)
    IN  IF p.post_leet = 0 THEN Len(password) < needed
        ELSE i = 0 \/ count < needed

\* get_modified_key(i) of the running call
CurrentKey == GetModifiedKey(pm[1].key, i)

\* Password part i of the running call, as a list of graphemes
CurrentPart ==
    GeneratePasswordPart(hasher, ModifiedData(pm[1]), CurrentKey,
                         pm[1].password_part_parameters)

\* One step of (0..).flat_map(..) or of (0..).map(..).try_fold(..): part i
\* is generated and, on the post-leet path, collected into a string,
\* leetified and appended by append_strings_till_needed_length
NextPart ==
    /\ pc = "generating"
    /\ NeedsPart
    /\ i < MaxParts
    /\ i' = i + 1
    /\ IF pm[1].post_leet = 0
       THEN /\ password' = password \o CurrentPart
            /\ UNCHANGED <<st, count>>
       ELSE LET p == Leetify(pm[1].post_leet, Concat(CurrentPart))
            IN  /\ count' = count + GraphemeCount(p)
                /\ st' = st \o p
                /\ UNCHANGED password
    /\ requested' = Append(requested, [counter |-> i, key |-> CurrentKey,
                                        part |-> CurrentPart])
    /\ UNCHANGED <<hasher, pc, args, pm, result, error, prev, calc>>

\* The password handed to combine_prefix_password_suffix
FinalPassword ==
    IF pm[1].post_leet = 0 THEN password ELSE Graphemes(st)

\* combine_prefix_password_suffix and the return of generate()
Finish ==
    /\ pc = "generating"
    /\ ~NeedsPart
    /\ result' = CombinePrefixPasswordSuffix(FinalPassword,
                                             pm[1].assembly_settings)
    /\ pc' = "done"
    /\ pm' = <<>>
    /\ UNCHANGED <<hasher, args, i, password, st, count, error, prev,
                   requested, calc>>

Next ==
    \/ /\ pc = "idle"
       /\ \E a \in ArgSet(hasher) : Call(a)
    \/ /\ pc = "done"
       /\ \E a \in Following(hasher, args) : Call(a)
    \/ NextPart
    \/ Finish

Spec == Init /\ [][Next]_vars

(***************************************************************************)
(* Properties.  A completed call is a state with pc = "done"; its          *)
(* arguments are in args and the returned string in result.                *)
(***************************************************************************)
\* The number of grapheme clusters of the prefix and of the suffix of the
\* current call
PrefixLen == GraphemeCount(args.prefix)

SuffixLen == GraphemeCount(args.suffix)

\* The last n graphemes of the list g (fewer when g is shorter)
LastGraphemes(g, n) == SubSeq(g, Max(1, Len(g) - n + 1), Len(g))

\* C1: a call with valid input and password_length >= prefix_len +
\* suffix_len returns a string of exactly password_length grapheme
\* clusters, without and with post-leet.
C1_LengthInvariant ==
    pc = "done" /\ args.password_length >= PrefixLen + SuffixLen
        => GraphemeCount(result) = args.password_length

\* C2: if prefix_len + suffix_len <= password_length, the first prefix_len
\* graphemes of the returned string are the prefix and the last suffix_len
\* graphemes are the suffix.
C2_PrefixSuffixInvariant ==
    pc = "done" /\ PrefixLen + SuffixLen <= args.password_length
        => /\ Take(Graphemes(result), PrefixLen) = Graphemes(args.prefix)
           /\ LastGraphemes(Graphemes(result), SuffixLen)
                  = Graphemes(args.suffix)

\* C3: if password_length < prefix_len + suffix_len, the returned string
\* has exactly password_length graphemes: the first
\* max(0, password_length - suffix_len) graphemes of the prefix, then the
\* first min(suffix_len, password_length) graphemes of the suffix.
C3_DegenerateCase ==
    pc = "done" /\ args.password_length < PrefixLen + SuffixLen
        => /\ GraphemeCount(result) = args.password_length
           /\ result =
                  Concat(Take(Graphemes(args.prefix),
                              Max(0, args.password_length - SuffixLen))
                         \o Take(Graphemes(args.suffix),
                                 Min(SuffixLen, args.password_length)))

C6_GenerateIsTotal ==
    ~(pc = "generating" /\ NeedsPart /\ i >= MaxParts)

\* The set of the elements of a sequence
Range(s) == {s[k] : k \in 1..Len(s)}

\* The alphabet the parts of the current call are written in
Alphabet == Range(PartCharacters(FromSettingsAlgorithm(args.hash_algorithm),
                                 args.characters))

\* The graphemes of the leetified forms of the alphabet's elements
LeetForms(level) ==
    UNION {Range(Graphemes(Leetify(level, e))) : e \in Alphabet}

\* The graphemes of the returned string between prefix and suffix
HashDerivedGraphemes ==
    LET g == Graphemes(result)
    IN  {g[k] : k \in (PrefixLen + 1)..(Len(g) - SuffixLen)}

\* C7: every grapheme of the returned string that is not part of prefix or
\* suffix is an element of the alphabet (for V06: a hexadecimal digit)
\* without post-leet, and a grapheme of the leetified form of such an
\* element with post-leet; digit k of a part is mapped to alphabet element
\* k, and k is smaller than the size of the alphabet.
C7_AlphabetClosure ==
    /\ pc = "done" /\ args.password_length >= PrefixLen + SuffixLen
           => IF PostLeetLevel(args.use_leet) = 0
              THEN HashDerivedGraphemes \subseteq Alphabet
              ELSE HashDerivedGraphemes
                       \subseteq LeetForms(PostLeetLevel(args.use_leet))
    /\ pc = "generating" =>
           LET chars == pm[1].password_part_parameters.characters
               digits == Reverse(PartIndices(hasher, ModifiedData(pm[1]),
                                             GetModifiedKey(pm[1].key, i),
                                             pm[1].password_part_parameters))
               part == CurrentPart
           IN  /\ Len(part) = Len(digits)
               /\ \A k \in 1..Len(digits) :
                      /\ digits[k] < Len(chars)
                      /\ part[k] = chars[digits[k] + 1]

\* The digits of part i of the running call, most significant first, and
\* the digest they are computed from
CurrentDigits ==
    Reverse(PartIndices(hasher, ModifiedData(pm[1]),
                        GetModifiedKey(pm[1].key, i),
                        pm[1].password_part_parameters))

CurrentDigest ==
    PartDigest(hasher, ModifiedData(pm[1]), GetModifiedKey(pm[1].key, i),
               pm[1].password_part_parameters)

\* bs * m + a on big-endian bytes of fixed width; carry is what overflows
RECURSIVE MulAddBytes(_, _, _, _)
MulAddBytes(bs, m, a, out) ==
    IF bs = <<>> THEN [bytes |-> out, carry |-> a]
    ELSE LET v == (bs[Len(bs)] * m) + a
         IN  MulAddBytes(SubSeq(bs, 1, Len(bs) - 1), m, v \div 256,
                         <<v % 256>> \o out)

\* Horner's rule over digits[lo..hi], most significant first, from acc
RECURSIVE HornerRange(_, _, _, _, _)
HornerRange(acc, digits, base, lo, hi) ==
    IF lo > hi \/ acc.carry # 0 THEN acc
    ELSE IF lo = hi THEN MulAddBytes(acc.bytes, base, digits[lo], <<>>)
    ELSE LET mid == (lo + hi) \div 2
             first == HornerRange(acc, digits, base, lo, mid)
         IN  IF first.carry # 0 THEN first
             ELSE HornerRange(first, digits, base, mid + 1, hi)

\* The value the digits denote in the base, as width big-endian bytes
DigitsValue(digits, base, width) ==
    HornerRange([bytes |-> [k \in 1..width |-> 0], carry |-> 0],
                digits, base, 1, Len(digits))

IsV06(algorithm) == FromSettingsAlgorithm(algorithm).family = "V06"

V06Example == <<48, 48, 100, 50, 97, 55, 51, 53>>

ModernExample == <<100, 50, 97, 55, 51, 53, 53, 49>>

\* TRUE iff the call is the one of the tests v06_compatibility_leading_zeros
\* and regular_md5_no_leading_zeros, with the given algorithm
IsLeadingZerosTest(algorithm) ==
    /\ pc = "done"
    /\ hasher = "md5"
    /\ args = MakeArgs(<<48, 49>>, <<97>>, algorithm, NotAtAll, HexCharacters,
                       <<>>, <<>>, 8, <<>>, <<>>)

\* C9: for V06 plain and V06 HMAC every password part has exactly 32
\* digits, most significant first: the digest value in base 16, left-padded
\* with zero digits; data "01", key "a", length 8 gives "00d2a735".
C9_V06PartHas32Digits ==
    /\ pc = "generating" /\ IsV06(args.hash_algorithm)
           => /\ Len(CurrentDigits) = 32
              /\ Len(CurrentPart) = 32
              /\ DigitsValue(CurrentDigits, 16, 16)
                     = [bytes |-> CurrentDigest, carry |-> 0]
    /\ IsLeadingZerosTest("Md5Version06") => result = V06Example

\* The call of v06_compatibility_leading_zeros has returned
C9_Witness == IsLeadingZerosTest("Md5Version06") /\ result = V06Example

\* C10: for the Modern family a password part is the digest value in base
\* |alphabet|, most significant digit first, without leading zero digits
\* and without any digit for the value zero; MD5 with the alphabet
\* 0123456789abcdef, data "01", key "a" gives "d2a73551".
C10_ModernPartIsBaseConversion ==
    /\ pc = "generating" /\ ~IsV06(args.hash_algorithm)
           => LET digits == CurrentDigits
                  base == Len(pm[1].password_part_parameters.characters)
                  digest == CurrentDigest
              IN  /\ \A k \in 1..Len(digits) : digits[k] \in 0..(base - 1)
                  /\ digits # <<>> => digits[1] # 0
                  /\ digits = <<>> <=> \A k \in 1..Len(digest) : digest[k] = 0
                  /\ DigitsValue(digits, base, Len(digest))
                         = [bytes |-> digest, carry |-> 0]
    /\ IsLeadingZerosTest("Md5") => result = ModernExample

\* The call of regular_md5_no_leading_zeros has returned
C10_Witness == IsLeadingZerosTest("Md5") /\ result = ModernExample

\* The decimal representation of n < 100
Decimal(n) ==
    IF n < 10 THEN <<48 + n>> ELSE <<48 + (n \div 10), 48 + (n % 10)>>

\* key for part 0, key, a line feed and the decimal counter for part n > 0
KeyDerivative(key, n) == IF n = 0 THEN key ELSE key \o <<10>> \o Decimal(n)

\* C11: part number n is computed with the key for n = 0 and with the key,
\* a line feed and the decimal representation of n for n > 0; the parts
\* are requested with the counters 0, 1, 2, ... and make up the password
\* in that order, none skipped and none repeated.
C11_KeyDerivativeAndOrder ==
    pc \in {"generating", "done"} =>
        /\ Len(requested) = i
        /\ \A k \in 1..Len(requested) :
               /\ requested[k].counter = k - 1
               /\ requested[k].key = KeyDerivative(args.key, k - 1)
        /\ pc = "generating" =>
               IF pm[1].post_leet = 0
               THEN password
                        = Concat([k \in 1..Len(requested) |-> requested[k].part])
               ELSE st = Concat([k \in 1..Len(requested) |->
                                    Leetify(pm[1].post_leet,
                                            Concat(requested[k].part))])

\* A call has returned a password made of two parts with graphemes
C11_Witness ==
    /\ pc = "done"
    /\ Len(requested) = 2
    /\ requested[1].part # <<>>
    /\ requested[2].part # <<>>
    /\ requested[2].key = args.key \o <<10, 49>>
    /\ PostLeetLevel(args.use_leet) = 0

\* Known UTF-8 encodings of the scalar values of the calls
Utf8Vector(c) ==
    CASE c < 128 -> <<c>>
      [] c = 233 -> <<195, 169>>
      [] c = 931 -> <<206, 163>>
      [] c = 962 -> <<207, 130>>
      [] c = 963 -> <<207, 131>>
      [] c = 128512 -> <<240, 159, 152, 128>>

\* Known low bytes of the UTF-16 code units of the same scalar values;
\* U+1F600 is the surrogate pair D83D DE00
LowByteVector(c) ==
    CASE c < 128 -> <<c>>
      [] c = 233 -> <<233>>
      [] c = 931 -> <<163>>
      [] c = 962 -> <<194>>
      [] c = 963 -> <<195>>
      [] c = 128512 -> <<61, 0>>

Utf8Bytes(s) == Concat([k \in 1..Len(s) |-> Utf8Vector(s[k])])

LowBytes(s) == Concat([k \in 1..Len(s) |-> LowByteVector(s[k])])

IsHmac(algorithm) ==
    algorithm \in {"HmacMd4", "HmacMd5", "HmacMd5Version06", "HmacSha1",
                   "HmacSha256", "HmacRipemd160"}

\* The hash function of an algorithm
PrimitiveOf(algorithm) ==
    CASE algorithm \in {"Md4", "HmacMd4"} -> "MD4"
      [] algorithm \in {"Md5", "HmacMd5", "Md5Version06", "HmacMd5Version06"}
             -> "MD5"
      [] algorithm \in {"Sha1", "HmacSha1"} -> "SHA1"
      [] algorithm \in {"Sha256", "HmacSha256"} -> "SHA256"
      [] algorithm \in {"Ripemd160", "HmacRipemd160"} -> "RIPEMD160"

\* Pre-leet of the current call: leet for the modes Before and
\* BeforeAndAfter, else the string as it is
PreLeet(s) ==
    IF args.use_leet.mode \in {"Before", "BeforeAndAfter"}
    THEN Leetify(args.use_leet.level, s)
    ELSE s

\* data + username + modifier of the current call
TextToUse == args.data \o args.username \o args.modifier

\* The strings part i is to be hashed from: for HMAC the key derivative
\* and the text, each with pre-leet; else the two joined, with pre-leet
ClaimedStrings ==
    IF IsHmac(args.hash_algorithm)
    THEN [key |-> <<PreLeet(KeyDerivative(args.key, i))>>,
          message |-> PreLeet(TextToUse)]
    ELSE [key |-> <<>>,
          message |-> PreLeet(KeyDerivative(args.key, i) \o TextToUse)]

\* The strings the model hashes for part i
CurrentStrings ==
    PartHashStrings(ModifiedData(pm[1]), CurrentKey,
                    pm[1].password_part_parameters)

\* The digest of the strings under the encoding Enc: an HMAC when there is
\* a key, else a hash
DigestOf(strings, Enc(_)) ==
    IF strings.key # <<>>
    THEN Hmac(hasher, PrimitiveOf(args.hash_algorithm), Enc(strings.key[1]),
              Enc(strings.message))
    ELSE Hash(hasher, PrimitiveOf(args.hash_algorithm), Enc(strings.message))

\* TRUE iff the digits of part i are the digits of the digest d
IsDigestOfPart(d) ==
    DigitsValue(CurrentDigits,
                Len(pm[1].password_part_parameters.characters), Len(d))
        = [bytes |-> d, carry |-> 0]

IsModernHmac(algorithm) == IsHmac(algorithm) /\ ~IsV06(algorithm)

\* C12 as stated: for the Modern HMAC algorithms pre-leet is applied to
\* key and data separately, and the HMAC key and message are the UTF-8
\* bytes of the results.
C12_ModernHmacUtf8 ==
    pc = "generating" /\ IsModernHmac(args.hash_algorithm)
        => IsDigestOfPart(DigestOf(ClaimedStrings, Utf8Bytes))

\* C12, amended: for the Modern HMAC algorithms pre-leet is applied to key
\* and data separately, and the HMAC key and message are the low bytes of
\* the UTF-16 code units of the results.
C12_ModernHmacLowBytes ==
    pc = "generating" /\ IsModernHmac(args.hash_algorithm)
        => IsDigestOfPart(DigestOf(ClaimedStrings, LowBytes))

\* A Modern HMAC part is generated from text outside ASCII, with pre-leet
C12_Witness ==
    /\ pc = "generating"
    /\ IsModernHmac(args.hash_algorithm)
    /\ args.data = <<98, 128512>>
    /\ args.use_leet.mode = "Before"
    /\ i = 1
    /\ LowBytes(ClaimedStrings.message) # Utf8Bytes(ClaimedStrings.message)

\* C13: every HMAC algorithm and both V06 algorithms hash the low byte of
\* each UTF-16 code unit of their input strings (two bytes for a character
\* outside the BMP); the plain Modern algorithms hash the UTF-8 bytes.
C13_ByteEncoding ==
    pc = "generating" =>
        IF IsHmac(args.hash_algorithm) \/ IsV06(args.hash_algorithm)
        THEN IsDigestOfPart(DigestOf(CurrentStrings, LowBytes))
        ELSE IsDigestOfPart(DigestOf(CurrentStrings, Utf8Bytes))

\* A plain V06 part is generated from text with a character outside the
\* BMP, which takes two bytes of the hashed message and four in UTF-8
C13_Witness ==
    /\ pc = "generating"
    /\ args.hash_algorithm = "Md5Version06"
    /\ args.data = <<98, 128512>>
    /\ i = 1
    /\ Len(LowBytes(CurrentStrings.message)) = Len(CurrentStrings.message) + 1
    /\ LowBytes(CurrentStrings.message) # Utf8Bytes(CurrentStrings.message)

\* The bytes the model's encoders make of the strings of a part
ModelBytes(s) ==
    IF IsHmac(args.hash_algorithm) \/ IsV06(args.hash_algorithm)
    THEN YeetUpperBytes(s)
    ELSE AsBytes(s)

\* C14: the plain algorithms hash the pre-leet of the one string
\* key derivative + data + username + modifier, the key first; the HMAC
\* algorithms apply pre-leet to the key derivative and to
\* data + username + modifier separately; without pre-leet the strings are
\* hashed as they are.
C14_HashInputStrings ==
    pc = "generating" =>
        /\ CurrentStrings = ClaimedStrings
        /\ IsDigestOfPart(DigestOf(ClaimedStrings, ModelBytes))

\* A plain part and pre-leet: the sigma of the key is followed by the data
\* and is lower-cased as a sigma inside a word, where the key alone would
\* end in a final sigma
C14_Witness ==
    /\ pc = "generating"
    /\ args.hash_algorithm = "Sha256"
    /\ args.use_leet.mode = "Before"
    /\ args.key = <<97, 931>>
    /\ i = 0
    /\ ClaimedStrings.message = <<52, 963, 98, 128512, 233>>
    /\ PreLeet(args.key) = <<52, 962>>

\* The strings part i is made from, before any leet
RawStrings ==
    IF IsHmac(args.hash_algorithm)
    THEN [key |-> <<KeyDerivative(args.key, i)>>, message |-> TextToUse]
    ELSE [key |-> <<>>, message |-> KeyDerivative(args.key, i) \o TextToUse]

\* The strings with the table of a level applied to each
LeetStrings(level, strings) ==
    [key |-> IF strings.key = <<>> THEN <<>>
             ELSE <<Leetify(level, strings.key[1])>>,
     message |-> Leetify(level, strings.message)]

\* One part is generated and added to the password
PartStep == pc = "generating" /\ i' = i + 1

\* C15: leet is applied to the hash input exactly in the modes Before and
\* BeforeAndAfter and to each generated part exactly in the modes After and
\* BeforeAndAfter, with the table of the configured level; with NotAtAll
\* neither is applied.
C15_LeetModes ==
    [][PartStep =>
        LET mode == args.use_leet.mode
            level == args.use_leet.level
            part == requested'[i + 1].part
        IN  /\ IF mode \in {"Before", "BeforeAndAfter"}
               THEN IsDigestOfPart(DigestOf(LeetStrings(level, RawStrings),
                                            ModelBytes))
               ELSE IsDigestOfPart(DigestOf(RawStrings, ModelBytes))
            /\ IF mode \in {"After", "BeforeAndAfter"}
               THEN /\ st' = st \o Leetify(level, Concat(part))
                    /\ password' = password
               ELSE /\ password' = password \o part
                    /\ st' = st]_vars

\* A part was generated with BeforeAndAfter at level 9: both leet steps
\* changed their input
C15_Witness ==
    /\ pc = "generating"
    /\ args.use_leet = [mode |-> "BeforeAndAfter", level |-> 9]
    /\ i = 1
    /\ st = Leetify(9, Concat(requested[1].part))
    /\ st # Concat(requested[1].part)
    /\ LeetStrings(9, RawStrings) # RawStrings


\* max(0, password_length - prefix_len - suffix_len) of the current call
Needed == Max(0, args.password_length - PrefixLen - SuffixLen)

\* Requested part k of the current call as a string with the post-leet
\* table applied to it alone
LeetPart(k) == Leetify(args.use_leet.level, Concat(requested[k].part))

\* The grapheme count accumulated over the first k parts
CountAfter(k) == SumSeq([j \in 1..k |-> GraphemeCount(LeetPart(j))])

\* The call runs on the post-leet path
IsPostLeetCall ==
    /\ pc \in {"generating", "done"}
    /\ args.use_leet.mode \in {"After", "BeforeAndAfter"}

\* C22: on the post-leet path the parts 0, 1, .. are generated in order,
\* each is leetified on its own and appended to the accumulator, and the
\* generation stops at the first part after which the accumulated grapheme
\* count is at least needed = max(0, password_length - prefix_len -
\* suffix_len): part 0 is always generated and none after the stopping one.
C22_PostLeetStopsAtNeeded ==
    IsPostLeetCall =>
        /\ \A k \in 1..Len(requested) : requested[k].counter = k - 1
        /\ st = Concat([k \in 1..Len(requested) |-> LeetPart(k)])
        /\ count = CountAfter(Len(requested))
        /\ \A k \in 1..(Len(requested) - 1) : CountAfter(k) < Needed
        /\ pc = "done" => /\ Len(requested) >= 1
                          /\ CountAfter(Len(requested)) >= Needed

\* A post-leet call has returned after two parts; the first ends in a
\* capital sigma, which its own leet made a final sigma
C22_Witness ==
    /\ IsPostLeetCall
    /\ pc = "done"
    /\ Len(requested) = 2
    /\ 0 < CountAfter(1)
    /\ CountAfter(1) < Needed
    /\ CountAfter(2) >= Needed
    /\ st # Leetify(args.use_leet.level,
                    Concat(requested[1].part) \o Concat(requested[2].part))

\* The errors of the conditions the arguments of the call fail, in the
\* order MissingTextToUse, MissingMasterPassword, InsufficientCharset
FailedConditions ==
    SelectSeq(<<[error |-> "MissingTextToUse", failed |-> args.data = <<>>],
                [error |-> "MissingMasterPassword",
                 failed |-> args.key = <<>>],
                [error |-> "InsufficientCharset",
                 failed |-> GraphemeCount(args.characters) < 2]>>,
              LAMBDA condition : condition.failed)

\* C29: a call that fails several conditions of validate_input at once
\* returns the error of the first one in the order empty data
\* (MissingTextToUse), empty key (MissingMasterPassword), alphabet of fewer
\* than two graphemes (InsufficientCharset): empty data with an empty key
\* gives MissingTextToUse, an empty key with an insufficient alphabet gives
\* MissingMasterPassword.
C29_FirstFailedCondition ==
    /\ pc = "error" <=> (pc # "idle" /\ FailedConditions # <<>>)
    /\ pc = "error" => error = FailedConditions[1].error
    /\ pc = "error" /\ args.data = <<>> /\ args.key = <<>>
           => error = "MissingTextToUse"
    /\ pc = "error" /\ args.data # <<>> /\ args.key = <<>>
         /\ GraphemeCount(args.characters) < 2
           => error = "MissingMasterPassword"

\* A call without data, without key and with the alphabet "a"
C29_Witness ==
    /\ pc = "error"
    /\ Len(FailedConditions) = 3
    /\ args.characters = <<97>>
    /\ error = "MissingTextToUse"

\* C30: on the post-leet path the count kept with the accumulator, the sum
\* of the grapheme counts of the leetified parts, is the number of
\* graphemes of the accumulated string as Grapheme::iter_from_str splits
\* it for the final assembly, so the string handed to the final assembly
\* holds at least the needed number of graphemes.
C30_CountIsGraphemeCount ==
    IsPostLeetCall /\ pc \in {"generating", "done"} =>
        /\ count = CountAfter(Len(requested))
        /\ count = GraphemeCount(st)
        /\ pc = "done" => GraphemeCount(st) >= Needed


(***************************************************************************)
(* The functions of the library called on their own: calc holds the        *)
(* arguments of one call and, once it has run, what the call returned.     *)
(***************************************************************************)
\* No password is being generated
NoPasswordCall ==
    /\ hasher = "zero"
    /\ pc = "calc"
    /\ args = <<>>
    /\ pm = <<>>
    /\ i = 0
    /\ password = <<>>
    /\ st = <<>>
    /\ count = 0
    /\ result = <<>>
    /\ error = ""
    /\ prev = <<>>
    /\ requested = <<>>

NoPasswordStep ==
    UNCHANGED <<hasher, pc, args, pm, i, password, st, count, result, error,
                prev, requested>>

\* The leet levels One .. Nine
LeetLevels == 1..9

\* "ykist", a word of leet_test_icelandic
Ykist == <<121, 107, 105, 115, 116>>

\* Inputs of leetify: every ASCII character, pairs of the characters around
\* the letters, a word of the tests, and strings whose lower-casing depends
\* on the context or changes the length
LeetInputs ==
    {<<c>> : c \in 0..127}
    \cup {<<c, d>> : c, d \in {64, 65, 90, 91, 96, 97, 122, 123}}
    \cup {Ykist, <<931>>, <<97, 931>>, <<97, 931, 98>>, <<304>>, <<230, 75>>}

LeetInit ==
    /\ NoPasswordCall
    /\ calc \in {[level |-> level, input |-> input, output |-> <<>>,
                  again |-> <<>>] :
                    level \in LeetLevels, input \in LeetInputs}

\* table.leetify(input)
LeetifyCall ==
    /\ calc.output = <<>>
    /\ calc' = [calc EXCEPT !.output = <<Leetify(calc.level, calc.input)>>]
    /\ NoPasswordStep

\* table.leetify(..) of the string the first call returned
LeetifyAgain ==
    /\ calc.output # <<>>
    /\ calc.again = <<>>
    /\ calc' = [calc EXCEPT !.again = <<Leetify(calc.level, calc.output[1])>>]
    /\ NoPasswordStep

LeetNext == LeetifyCall \/ LeetifyAgain

LeetSpec == LeetInit /\ [][LeetNext]_vars

\* What leet_test_icelandic expects of "ykist" at each level
YkistExpected(level) ==
    CASE level = 1 -> <<121, 107, 105, 115, 55>>
      [] level = 2 -> <<121, 107, 49, 53, 55>>
      [] level \in {3, 4} -> <<39, 47, 107, 39, 53, 55>>
      [] level \in {5, 6} -> <<39, 47, 124, 60, 33, 36, 55>>
      [] level = 7 -> <<39, 47, 124, 60, 33, 53, 55>>
      [] level = 8 -> <<39, 47, 124, 40, 33, 36, 124>>
      [] level = 9 -> <<39, 47, 124, 123, 33, 36, 124>>

\* C16: leetify always returns a string: the lower-cased input with every
\* code point in a..z replaced by the entry of the level's table at index
\* code point - 0x61, every other code point unchanged, in the order of the
\* input.
C16_Leetify ==
    calc.output # <<>> =>
        LET lower == ToLowercase(calc.input)
            table == LeetTable(calc.level)
            piece(k) == IF lower[k] \in 97..122
                        THEN table[(lower[k] - 97) + 1]
                        ELSE <<lower[k]>>
        IN  /\ Len(table) = 26
            /\ calc.output[1] = Concat([k \in 1..Len(lower) |-> piece(k)])
            /\ \A k \in 1..Len(calc.output[1]) : calc.output[1][k] \in Nat
            /\ calc.input = Ykist => calc.output[1] = YkistExpected(calc.level)

\* leetify at level 9 has turned "a", capital sigma, "b" into "@", a small
\* sigma and "8": lower-cased as a whole, the letters replaced, the sigma
\* kept
C16_Witness ==
    /\ calc.level = 9
    /\ calc.input = <<97, 931, 98>>
    /\ calc.output = << <<64, 963, 56>> >>

\* C17: for every ASCII input and every level from 4 to 9, leetify of the
\* result of leetify is that result.
C17_LeetIdempotent ==
    /\ calc.again # <<>>
    /\ calc.level \in 4..9
    /\ \A k \in 1..Len(calc.input) : calc.input[k] < 128
    => calc.again = calc.output

\* leetify at level 8 was applied twice to "Z", whose replacement has three
\* characters
C17_Witness ==
    /\ calc.level = 8
    /\ calc.input = <<90>>
    /\ calc.output = << <<34, 47, 95>> >>
    /\ calc.again = calc.output


(***************************************************************************)
(* ArbitraryBytes<N>: N limbs, most significant first.  The limbs of the   *)
(* code are u32; the model keeps LimbBits bits per limb, and twice that in *)
(* the places where the code computes in u64.                              *)
(***************************************************************************)
LimbBits == 2

N == 4

\* PadWithAZero::Output is ArbitraryBytes<M>
M == N + 1

\* 2^e
RECURSIVE Pow2(_)
Pow2(e) == IF e = 0 THEN 1 ELSE 2 * Pow2(e - 1)

\* u32::MAX + 1
Limb == Pow2(LimbBits)

\* u32::MAX
LimbMax == Limb - 1

\* From<&usize> for ArbitraryBytes<N>, from_usize
FromUsize(x) ==
    [k \in 1..N |->
        IF k = N THEN x % Limb
        ELSE IF k = N - 1 THEN (x \div Limb) % Limb
        ELSE 0]

\* From<&u32> for ArbitraryBytes<N>
FromU32(x) == [k \in 1..N |-> IF k = N THEN x ELSE 0]

\* The derived Ord of ArbitraryBytes: the arrays compared limb by limb
RECURSIVE CmpFrom(_, _, _)
CmpFrom(a, b, k) ==
    IF k > Len(a) THEN "Equal"
    ELSE IF a[k] < b[k] THEN "Less"
    ELSE IF a[k] > b[k] THEN "Greater"
    ELSE CmpFrom(a, b, k + 1)

Cmp(a, b) == CmpFrom(a, b, 1)

\* TryFrom<&ArbitraryBytes<N>> for u32: <<>> is Err
TryIntoU32(value) ==
    IF \E k \in 1..SaturatingSub(N, 1) : value[k] # 0 THEN <<>>
    ELSE <<value[N]>>

\* div_assign_with_remainder_u32: the fold over the limbs from limb k on,
\* carry being the remainder so far
RECURSIVE DivAssignFold(_, _, _, _)
DivAssignFold(limbs, divisor, k, carry) ==
    IF k > Len(limbs) THEN [limbs |-> limbs, remainder |-> carry % Limb]
    ELSE LET dividend == (carry * Limb) + limbs[k]
             remainder == dividend % divisor
             ratio == dividend \div divisor
         IN  DivAssignFold([limbs EXCEPT ![k] = ratio % Limb], divisor, k + 1,
                           remainder)

\* div_assign_with_remainder_u32: self becomes the quotient
DivAssignWithRemainderU32(self, rhs) == DivAssignFold(self, rhs, 1, 0)

\* rem_assign_with_quotient_u32: self becomes the remainder
RemAssignWithQuotientU32(self, divisor) ==
    LET d == DivAssignWithRemainderU32(self, divisor)
    IN  [self |-> FromU32(d.remainder), quotient |-> d.limbs]

\* find_first_nonzero_digit: an index counted from 0
FindFirstNonzeroDigit(self) ==
    IF \A k \in 1..Len(self) : self[k] = 0 THEN Len(self)
    ELSE (CHOOSE k \in 1..Len(self) :
              self[k] # 0 /\ \A l \in 1..(k - 1) : self[l] = 0) - 1

\* get_digit_from_right
GetDigitFromRight(self, d) == self[Len(self) - d]

\* set_digit_from_right
SetDigitFromRight(self, val, d) == [self EXCEPT ![Len(self) - d] = val]

\* A divisor that is never shifted
NoLeadingZeros(x) == 0

\* u32::leading_zeros
RECURSIVE LeadingZerosFrom(_, _)
LeadingZerosFrom(x, bit) ==
    IF bit = 0 \/ x >= Pow2(bit - 1) THEN 0
    ELSE 1 + LeadingZerosFrom(x, bit - 1)

LeadingZeros(x) == LeadingZerosFrom(x, LimbBits)

\* pad_with_a_zero
PadWithAZero(self) == <<0>> \o self

\* shift_left: the padded number, each limb taking the upper bits of the
\* limb to its right
ShiftLeft(self, s) ==
    LET res == PadWithAZero(self)
        next == self \o <<0>>
    IN  IF s # 0
        THEN [k \in 1..M |->
                 ((res[k] * Pow2(s)) % Limb) + (next[k] \div Pow2(LimbBits - s))]
        ELSE res

\* shift_right: the fold over the limbs from limb k on
RECURSIVE ShiftRightFold(_, _, _, _)
ShiftRightFold(self, s, k, carry) ==
    IF k > Len(self) THEN self
    ELSE LET c == (self[k] * Pow2(LimbBits - s)) % Limb
             val == (self[k] \div Pow2(s)) + carry
         IN  ShiftRightFold([self EXCEPT ![k] = val], s, k + 1, c)

ShiftRight(self, s) == IF s # 0 THEN ShiftRightFold(self, s, 1, 0) ELSE self

\* slice_overflowing_sub_assign: the fold from the last limb to the first
RECURSIVE SubAssignFold(_, _, _, _)
SubAssignFold(lhs, rhs, k, carry) ==
    IF k = 0 THEN [slice |-> lhs, overflow |-> carry]
    ELSE LET sum == rhs[k] + (IF carry THEN 1 ELSE 0)
             r == sum % Limb
         IN  SubAssignFold([lhs EXCEPT ![k] = (lhs[k] - r) % Limb], rhs, k - 1,
                           sum >= Limb \/ lhs[k] < r)

SliceOverflowingSubAssign(lhs, rhs) == SubAssignFold(lhs, rhs, Len(lhs), FALSE)

\* slice_overflowing_add_assign
RECURSIVE AddAssignFold(_, _, _, _)
AddAssignFold(lhs, rhs, k, carry) ==
    IF k = 0 THEN [slice |-> lhs, overflow |-> carry]
    ELSE LET sum == rhs[k] + (IF carry THEN 1 ELSE 0)
             r == sum % Limb
         IN  AddAssignFold([lhs EXCEPT ![k] = (lhs[k] + r) % Limb], rhs, k - 1,
                           sum >= Limb \/ lhs[k] + r >= Limb)

SliceOverflowingAddAssign(lhs, rhs) == AddAssignFold(lhs, rhs, Len(lhs), FALSE)

\* u64_from_u32s
U64FromU32s(msb, lsb) == (msb * Limb) + lsb

\* const_mul_u32: the loop from the last limb to the first; <<>> is None
RECURSIVE ConstMulLoop(_, _, _, _)
ConstMulLoop(lhs, rhs, idx, carry) ==
    IF idx = 0 THEN (IF carry # 0 THEN <<>> ELSE <<lhs>>)
    ELSE LET res == (lhs[idx] * rhs) + carry
         IN  ConstMulLoop([lhs EXCEPT ![idx] = res % Limb], rhs, idx - 1,
                          res \div Limb)

ConstMulU32(lhs, rhs) == ConstMulLoop(lhs, rhs, Len(lhs), 0)

\* The first guess of step D3, left as it is
UnrefinedGuess(guesstimate, guess_reminder, guess_divisor, second, third) ==
    guesstimate

\* Step D3 of rem_assign_with_quotient_knuth: the loop that refines the guess
RECURSIVE RefineGuess(_, _, _, _, _)
RefineGuess(guesstimate, guess_reminder, guess_divisor, second, third) ==
    IF /\ guess_reminder <= LimbMax
       /\ \/ guesstimate > LimbMax
          \/ second * guesstimate > (guess_reminder * Limb) + third
    THEN RefineGuess(guesstimate - 1, guess_reminder + guess_divisor,
                     guess_divisor, second, third)
    ELSE guesstimate

\* The slice self[from..to] put back into self
WithSlice(self, from, slice) ==
    [k \in 1..Len(self) |->
        IF k >= from /\ k < from + Len(slice) THEN slice[k - from + 1]
        ELSE self[k]]

\* Steps D3 to D6 for the digit j of the quotient; panic is set when the
\* expect on the product fails, refined is the guess the while loop leaves
\* (a u64), added_back and carried are the did_overflow of the subtraction
\* and of the addition
KnuthDigit(dividend, divisor, n, j) ==
    LET guess_divisor == GetDigitFromRight(divisor, n - 1)
        second == GetDigitFromRight(divisor, n - 2)
        guess_dividend == U64FromU32s(GetDigitFromRight(dividend, j + n),
                                      GetDigitFromRight(dividend, j + n - 1))
        refined ==
            RefineGuess(guess_dividend \div guess_divisor,
                        guess_dividend % guess_divisor, guess_divisor, second,
                        GetDigitFromRight(dividend, j + n - 2))
        guesstimate == refined % Limb
        s == ConstMulU32(divisor, guesstimate)
        s_start == (M - 1 - n) + 1
        d_start == s_start - j
        d_end == M - j
    IN  IF s = <<>>
        THEN [panic |-> TRUE, dividend |-> dividend, digit |-> 0,
              added_back |-> FALSE, refined |-> refined, carried |-> FALSE]
        ELSE LET sub == SliceOverflowingSubAssign(
                            SubSeq(dividend, d_start, d_end),
                            SubSeq(s[1], s_start, M))
                 add == SliceOverflowingAddAssign(
                            sub.slice, SubSeq(divisor, s_start, M))
             IN  IF sub.overflow
                 THEN [panic |-> FALSE,
                       dividend |-> WithSlice(dividend, d_start, add.slice),
                       digit |-> (guesstimate - 1) % Limb,
                       added_back |-> TRUE, refined |-> refined,
                       carried |-> add.overflow]
                 ELSE [panic |-> FALSE,
                       dividend |-> WithSlice(dividend, d_start, sub.slice),
                       digit |-> guesstimate,
                       added_back |-> FALSE, refined |-> refined,
                       carried |-> FALSE]

\* Steps D2 and D7: the loop over j, from m_extra_digits_dividend down to 0;
\* steps lists what each iteration did
RECURSIVE KnuthLoop(_, _, _, _, _, _, _)
KnuthLoop(dividend, divisor, quotient, n, j, added_back, steps) ==
    IF j < 0
    THEN [panic |-> FALSE, dividend |-> dividend, quotient |-> quotient,
          added_back |-> added_back, steps |-> steps]
    ELSE LET d == KnuthDigit(dividend, divisor, n, j)
             step == [j |-> j, before |-> dividend, after |-> d.dividend,
                      refined |-> d.refined, digit |-> d.digit,
                      added_back |-> d.added_back, carried |-> d.carried]
         IN  IF d.panic
             THEN [panic |-> TRUE, dividend |-> dividend,
                   quotient |-> quotient, added_back |-> added_back,
                   steps |-> Append(steps, step)]
             ELSE KnuthLoop(d.dividend, divisor,
                            SetDigitFromRight(quotient, d.digit, j), n, j - 1,
                            added_back \/ d.added_back, Append(steps, step))

\* rem_assign_with_quotient_knuth; besides self and the quotient the
\* record keeps the values the debug assertions of the routine are about
RemAssignWithQuotientKnuth(self, divisor) ==
    LET n_digits_divisor == N - FindFirstNonzeroDigit(divisor)
        m_plus_n_digits_dividend == N - FindFirstNonzeroDigit(self)
        m_extra_digits_dividend == m_plus_n_digits_dividend - n_digits_divisor
        normalize_shift ==
            LeadingZeros(GetDigitFromRight(divisor, n_digits_divisor - 1))
        loop == KnuthLoop(ShiftLeft(self, normalize_shift),
                          ShiftLeft(divisor, normalize_shift), FromUsize(0),
                          n_digits_divisor, m_extra_digits_dividend, FALSE,
                          <<>>)
    IN  [self |-> Tail(ShiftRight(loop.dividend, normalize_shift)),
         quotient |-> loop.quotient,
         panic |-> loop.panic,
         path |-> IF loop.added_back THEN "knuth add back" ELSE "knuth",
         n_digits_divisor |-> n_digits_divisor,
         normalize_shift |-> normalize_shift,
         divisor |-> ShiftLeft(divisor, normalize_shift),
         steps |-> loop.steps]

\* RemAssignWithQuotient for ArbitraryBytes<N>: self after the call, the
\* quotient returned, and the path taken
RemAssignWithQuotient(self, divisor) ==
    CASE Cmp(self, divisor) = "Less" ->
             [self |-> self, quotient |-> FromUsize(0), panic |-> FALSE,
              path |-> "less"]
      [] Cmp(self, divisor) = "Equal" ->
             [self |-> FromUsize(0), quotient |-> FromUsize(1),
              panic |-> FALSE, path |-> "equal"]
      [] Cmp(self, divisor) = "Greater" ->
             IF TryIntoU32(divisor) # <<>>
             THEN LET d == RemAssignWithQuotientU32(self, TryIntoU32(divisor)[1])
                  IN  [self |-> d.self, quotient |-> d.quotient,
                       panic |-> FALSE, path |-> "u32"]
             ELSE RemAssignWithQuotientKnuth(self, divisor)

\* Every ArbitraryBytes<N>
AllArbitraryBytes == [1..N -> 0..LimbMax]

DivInit ==
    /\ NoPasswordCall
    /\ calc \in {[dividend |-> a, divisor |-> b, returned |-> <<>>] :
                    a \in AllArbitraryBytes,
                    b \in AllArbitraryBytes \ {FromUsize(0)}}

\* dividend.rem_assign_with_quotient(&divisor)
RemAssignWithQuotientCall ==
    /\ calc.returned = <<>>
    /\ calc' = [calc EXCEPT
                   !.returned = <<RemAssignWithQuotient(calc.dividend,
                                                        calc.divisor)>>]
    /\ NoPasswordStep

DivNext == RemAssignWithQuotientCall

DivSpec == DivInit /\ [][DivNext]_vars

\* The number a sequence of limbs stands for
RECURSIVE LimbsValue(_)
LimbsValue(limbs) ==
    IF limbs = <<>> THEN 0
    ELSE (LimbsValue(SubSeq(limbs, 1, Len(limbs) - 1)) * Limb)
             + limbs[Len(limbs)]

\* C18: for all N-limb numbers A and B with B # 0, rem_assign_with_quotient
\* leaves R in A and returns Q with Q * B + R = A and 0 <= R < B, on every
\* path: A < B gives (0, A), A = B gives (1, 0), a divisor of one limb is
\* divided by long division and every other divisor by algorithm D.
C18_DivMod ==
    calc.returned # <<>> =>
        LET a == LimbsValue(calc.dividend)
            b == LimbsValue(calc.divisor)
            q == LimbsValue(calc.returned[1].quotient)
            r == LimbsValue(calc.returned[1].self)
            path == calc.returned[1].path
        IN  /\ ~calc.returned[1].panic
            /\ Len(calc.returned[1].quotient) = N
            /\ Len(calc.returned[1].self) = N
            /\ q = a \div b
            /\ r = a % b
            /\ 0 <= r /\ r < b
            /\ (q * b) + r = a
            /\ a < b <=> path = "less"
            /\ a < b => q = 0 /\ r = a
            /\ a = b <=> path = "equal"
            /\ a = b => q = 1 /\ r = 0
            /\ a > b /\ b < Limb <=> path = "u32"
            /\ a > b /\ b >= Limb <=> path \in {"knuth", "knuth add back"}

\* Algorithm D has run with a guess that was one too large and was
\* corrected by adding the divisor back
C18_Witness ==
    /\ calc.returned # <<>>
    /\ calc.returned[1].path = "knuth add back"
    /\ LimbsValue(calc.divisor) >= Limb * Limb
    /\ LimbsValue(calc.returned[1].quotient) > 0
    /\ LimbsValue(calc.returned[1].self) > 0

\* Algorithm D was used for the division
IsKnuth ==
    /\ calc.returned # <<>>
    /\ calc.returned[1].path \in {"knuth", "knuth add back"}

\* The digit of the quotient that the iteration has to find: the padded
\* dividend divided by the normalized divisor shifted by j limbs
TrueDigit(step, divisor) ==
    LimbsValue(step.before) \div (LimbsValue(divisor) * Pow2(LimbBits * step.j))

\* C23: in algorithm D the normalized divisor has the top bit of its most
\* significant non-zero limb set; for every digit of the quotient the
\* refined guess fits in one limb and is the digit or the digit plus one,
\* so that one add-back corrects it; and the add-back carries out whenever
\* the subtraction has borrowed.  None of the debug assertions and expects
\* of the routine fails.
C23_KnuthGuess ==
    IsKnuth =>
        LET r == calc.returned[1]
            n == r.n_digits_divisor
        IN  /\ M = N + 1
            /\ n > 1
            /\ r.normalize_shift < LimbBits
            /\ LeadingZeros(GetDigitFromRight(r.divisor, n - 1)) = 0
            /\ GetDigitFromRight(r.divisor, n - 1) >= Limb \div 2
            /\ \A k \in 1..(M - n) : r.divisor[k] = 0
            /\ ~r.panic
            /\ Len(r.steps) = (N - FindFirstNonzeroDigit(calc.dividend)) - n + 1
            /\ \A k \in 1..Len(r.steps) :
                   LET step == r.steps[k]
                       digit == TrueDigit(step, r.divisor)
                   IN  /\ step.refined <= LimbMax
                       /\ step.refined \in {digit, digit + 1}
                       /\ step.added_back <=> step.refined = digit + 1
                       /\ step.added_back => step.carried
                       /\ step.digit = digit
                       /\ LimbsValue(step.after) =
                              LimbsValue(step.before)
                                  - (digit * LimbsValue(r.divisor)
                                         * Pow2(LimbBits * step.j))

\* A division in which the divisor was shifted, one guess was one too
\* large and corrected by an add-back that carried, and another was exact
C23_Witness ==
    /\ IsKnuth
    /\ calc.returned[1].normalize_shift > 0
    /\ \E k \in 1..Len(calc.returned[1].steps) :
           LET step == calc.returned[1].steps[k]
           IN  /\ step.added_back
               /\ step.carried
               /\ step.refined = TrueDigit(step, calc.returned[1].divisor) + 1
    /\ \E k \in 1..Len(calc.returned[1].steps) :
           /\ ~calc.returned[1].steps[k].added_back
           /\ calc.returned[1].steps[k].digit > 0


(***************************************************************************)
(* IterativeBaseConversion<V, B> over an unsigned integer type V of        *)
(* ValueBits bits with checked multiplication, as the MyU128 of the tests. *)
(***************************************************************************)
ValueBits == 6

\* V::MAX
MaxValue == Pow2(ValueBits) - 1

\* checked_mul: <<>> is None
CheckedMul(a, b) == IF a * b > MaxValue THEN <<>> ELSE <<a * b>>

\* PrecomputedMaxPowers::lookup, the default of the trait
Lookup(base) == <<>>

\* successors(.., |(p, e)| Some(((p * p)?, 2 * e))).last()
RECURSIVE LastSquare(_, _)
LastSquare(p, e) ==
    IF CheckedMul(p, p) = <<>> THEN [power |-> p, exponent |-> e]
    ELSE LastSquare(CheckedMul(p, p)[1], 2 * e)

\* successors(.., |(power, count)| (power * base).map(..)).last()
RECURSIVE LastProduct(_, _, _)
LastProduct(power, exponent, base) ==
    IF CheckedMul(power, base) = <<>> THEN [power |-> power, exponent |-> exponent]
    ELSE LastProduct(CheckedMul(power, base)[1], exponent + 1, base)

\* The largest fitting power among base^1, base^2, base^4, ..
SquaresOnly(base) == LastSquare(base, 1)

\* find_highest_fitting_power_non_cached
FindHighestFittingPowerNonCached(base) ==
    LET exp_result == LastSquare(base, 1)
    IN  LastProduct(exp_result.power, exp_result.exponent, base)

\* find_highest_fitting_power
FindHighestFittingPower(base) ==
    IF Lookup(base) # <<>> THEN Lookup(base)[1]
    ELSE FindHighestFittingPowerNonCached(base)

\* IterativeBaseConversion::new
IterativeBaseConversionNew(value, base) ==
    LET found == FindHighestFittingPower(base)
    IN  [current_value |-> value,
         current_base_power |-> found.power,
         remaining_digits |-> found.exponent + 1,
         base |-> base,
         switch_to_multiplication |-> FALSE]

\* size_hint, len
SizeHint(it) == it.remaining_digits

\* A next that divides current_base_power by the base for every digit
IteratorNextDividingEachTime(it) ==
    IF it.remaining_digits = 0
    THEN [it |-> it, item |-> <<>>, overflow |-> FALSE]
    ELSE [it |-> [it EXCEPT
                     !.current_value = @ % it.current_base_power,
                     !.current_base_power = @ \div it.base,
                     !.switch_to_multiplication = TRUE,
                     !.remaining_digits = @ - 1],
          item |-> <<it.current_value \div it.current_base_power>>,
          overflow |-> FALSE]

\* Iterator::next: the iterator after the call, the item returned (<<>> is
\* None) and whether the multiplication left the range of V
IteratorNext(it) ==
    IF it.remaining_digits = 0
    THEN [it |-> it, item |-> <<>>, overflow |-> FALSE]
    ELSE LET quotient == it.current_value \div it.current_base_power
             rest == it.current_value % it.current_base_power
         IN  [it |-> IF it.switch_to_multiplication
                     THEN [it EXCEPT
                              !.current_value =
                                  (rest * it.base) % (MaxValue + 1),
                              !.remaining_digits = @ - 1]
                     ELSE [it EXCEPT
                              !.current_value = rest,
                              !.current_base_power = @ \div it.base,
                              !.switch_to_multiplication = TRUE,
                              !.remaining_digits = @ - 1],
              item |-> <<quotient>>,
              overflow |-> it.switch_to_multiplication
                               /\ rest * it.base > MaxValue]

ConversionInit ==
    /\ NoPasswordCall
    /\ calc \in {[value |-> value, base |-> base, it |-> <<>>, len |-> 0,
                  digits |-> <<>>, ended |-> FALSE, overflow |-> FALSE] :
                    value \in 0..MaxValue, base \in 2..MaxValue}

\* IterativeBaseConversion::new(value, base), then len()
ConversionNew ==
    /\ calc.it = <<>>
    /\ LET it == IterativeBaseConversionNew(calc.value, calc.base)
       IN  calc' = [calc EXCEPT !.it = <<it>>, !.len = SizeHint(it)]
    /\ NoPasswordStep

\* next() returns a digit
ConversionNextSome ==
    /\ calc.it # <<>>
    /\ IteratorNext(calc.it[1]).item # <<>>
    /\ LET n == IteratorNext(calc.it[1])
       IN  calc' = [calc EXCEPT !.it = <<n.it>>,
                                !.digits = Append(@, n.item[1]),
                                !.overflow = @ \/ n.overflow]
    /\ NoPasswordStep

\* next() returns None
ConversionNextNone ==
    /\ calc.it # <<>>
    /\ ~calc.ended
    /\ IteratorNext(calc.it[1]).item = <<>>
    /\ calc' = [calc EXCEPT !.it = <<IteratorNext(calc.it[1]).it>>,
                            !.ended = TRUE]
    /\ NoPasswordStep

ConversionNext == ConversionNew \/ ConversionNextSome \/ ConversionNextNone

ConversionSpec == ConversionInit /\ [][ConversionNext]_vars

\* The largest e with b^e <= x
RECURSIVE LogFloor(_, _)
LogFloor(x, b) == IF x < b THEN 0 ELSE 1 + LogFloor(x \div b, b)

RECURSIVE Power(_, _)
Power(b, e) == IF e = 0 THEN 1 ELSE b * Power(b, e - 1)

\* The digit of b^e in the base-b representation of x
DigitAt(x, b, e) == (x \div Power(b, e)) % b

\* C19: for every value and every base B >= 2 the conversion yields E + 1
\* digits, E the largest exponent with B^E <= the largest value of the
\* type; the length reported before the iteration is E + 1, every digit is
\* below B, the digits are the base-B representation of the value, most
\* significant first, padded with zeros to E + 1 digits, and after the last
\* digit next returns None.
C19_IterativeConversion ==
    calc.it # <<>> =>
        LET e == LogFloor(MaxValue, calc.base)
            yielded == Len(calc.digits)
        IN  /\ calc.len = e + 1
            /\ yielded <= e + 1
            /\ SizeHint(calc.it[1]) = (e + 1) - yielded
            /\ ~calc.overflow
            /\ \A k \in 1..yielded :
                   /\ calc.digits[k] < calc.base
                   /\ calc.digits[k] = DigitAt(calc.value, calc.base, (e + 1) - k)
            /\ calc.ended => yielded = e + 1
            /\ yielded = e + 1 => IteratorNext(calc.it[1]).item = <<>>
            /\ yielded < e + 1 => IteratorNext(calc.it[1]).item # <<>>

\* 27 in base 3 with six bits: 3^3 = 27 is the largest power, four digits
\* 1 0 0 0 were yielded, then None
C19_Witness ==
    /\ calc.value = 27
    /\ calc.base = 3
    /\ calc.len = LogFloor(MaxValue, 3) + 1
    /\ Len(calc.digits) = calc.len
    /\ calc.digits[calc.len - 3] = 1
    /\ calc.ended

\* next() has returned a digit in this step
DigitStep == calc.it # <<>> /\ Len(calc'.digits) = Len(calc.digits) + 1

\* C25: while an IterativeBaseConversion is iterated, for every start
\* value, the largest one included, and every base B >= 2, each
\* multiplication of current_value by the base gives a product below the
\* highest fitting power B^E, which is within the range of the value type;
\* current_base_power is divided by the base once, after the first digit,
\* and stays B^(E - 1) from then on.
C25_MultiplicationFits ==
    [][DigitStep =>
        LET before == calc.it[1]
            after == calc'.it[1]
            highest == Power(calc.base, LogFloor(MaxValue, calc.base))
            product == (before.current_value % before.current_base_power)
                           * calc.base
        IN  /\ highest <= MaxValue
            /\ after.switch_to_multiplication
            /\ after.current_base_power * calc.base = highest
            /\ ~calc'.overflow
            /\ IF before.switch_to_multiplication
               THEN /\ Len(calc.digits) >= 1
                    /\ before.current_value < highest
                    /\ before.current_base_power = after.current_base_power
                    /\ product < highest
                    /\ after.current_value = product
               ELSE /\ Len(calc.digits) = 0
                    /\ before.current_value = calc.value
                    /\ before.current_base_power = highest
                    /\ after.current_value = calc.value % highest]_vars

\* The largest value in base 2: after the second digit current_value is
\* the product 2 * (2^(E - 1) - 1), two below the highest power 2^E
C25_Witness ==
    /\ calc.it # <<>>
    /\ calc.value = MaxValue
    /\ calc.base = 2
    /\ Len(calc.digits) = 2
    /\ calc.it[1].switch_to_multiplication
    /\ calc.it[1].current_value = Power(2, LogFloor(MaxValue, 2)) - 2
    /\ calc.it[1].current_base_power * 2 = Power(2, LogFloor(MaxValue, 2))


(***************************************************************************)
(* hmac on its own.                                                        *)
(***************************************************************************)
HmacInit ==
    /\ NoPasswordCall
    /\ calc \in {[h |-> h, prim |-> prim, key |-> key, data |-> data,
                  returned |-> <<>>] :
                    h \in {"poly", "md5"}, prim \in Primitives,
                    key \in {Repeat(b, n) : b \in {0, 1, 11, 54, 92, 170, 255},
                                            n \in {0, 1, 16, 63, 64, 65, 80}}
                            \cup {[k \in 1..n |-> k] : n \in {3, 64, 65}},
                    data \in {<<>>, <<0>>, HiThere, HashKeyFirst}}

\* hmac::<T, _, _>(key, data)
HmacCall ==
    /\ calc.returned = <<>>
    /\ calc' = [calc EXCEPT
                   !.returned = <<Hmac(calc.h, calc.prim, calc.key, calc.data)>>]
    /\ NoPasswordStep

HmacNext == HmacCall

HmacSpec == HmacInit /\ [][HmacNext]_vars

\* Bit b of x
Bit(x, b) == (x \div Pow2(b)) % 2

\* x XOR c for bytes
XorByte(x, c) ==
    LET bit(b) == IF Bit(x, b) = Bit(c, b) THEN 0 ELSE Pow2(b)
    IN  bit(0) + bit(1) + bit(2) + bit(3) + bit(4) + bit(5) + bit(6) + bit(7)

\* The block K of a key: the key when it has at most 64 bytes, else its
\* hash, filled with zero bytes to 64 bytes
KeyBlock(h, prim, key) ==
    LET k0 == IF Len(key) <= 64 THEN key ELSE Hash(h, prim, key)
    IN  k0 \o Repeat(0, 64 - Len(k0))

\* H(outer_pad + H(inner_pad + data))
HmacOfBlock(h, prim, block, data) ==
    LET inner_pad == [k \in 1..64 |-> XorByte(block[k], 54)]
        outer_pad == [k \in 1..64 |-> XorByte(block[k], 92)]
    IN  Hash(h, prim, outer_pad \o Hash(h, prim, inner_pad \o data))

\* C20: hmac returns H(outer_pad + H(inner_pad + data)), the pads being the
\* 64-byte block K XOR 0x36 and 0x5C, and K the key filled with zero bytes
\* to 64 bytes when the key has at most 64 bytes (a key of 64 bytes is not
\* hashed) and H(key) filled with zero bytes when it has more.
C20_Hmac ==
    calc.returned # <<>> =>
        /\ calc.returned[1] =
               HmacOfBlock(calc.h, calc.prim,
                           KeyBlock(calc.h, calc.prim, calc.key), calc.data)
        /\ Len(calc.key) = 64 =>
               calc.returned[1] =
                   HmacOfBlock(calc.h, calc.prim, calc.key, calc.data)
        /\ /\ calc.h = "md5" /\ calc.prim = "MD5"
           /\ calc.key = Repeat(11, 16) /\ calc.data = HiThere
           => calc.returned[1] =
                  <<146, 148, 114, 122, 54, 56, 187, 28, 19, 244, 142, 248,
                    21, 139, 252, 157>>
        /\ /\ calc.h = "md5" /\ calc.prim = "MD5"
           /\ calc.key = Repeat(170, 80) /\ calc.data = HashKeyFirst
           => calc.returned[1] =
                  <<107, 26, 183, 254, 75, 215, 191, 143, 11, 98, 230, 206,
                    97, 185, 208, 205>>

\* hmac of a key of exactly 64 bytes under the checksum hasher: the key
\* itself made the pads, and its hash would have made another digest
C20_Witness ==
    /\ calc.returned # <<>>
    /\ calc.h = "poly"
    /\ calc.key = [k \in 1..64 |-> k]
    /\ calc.data = HiThere
    /\ calc.returned[1] # HmacOfBlock(calc.h, calc.prim,
                                      Hash(calc.h, calc.prim, calc.key)
                                          \o Repeat(0, 64 - DigestBytes(calc.prim)),
                                      calc.data)


(***************************************************************************)
(* ArbitraryBytes<5> and ArbitraryBytes<8> at the width of the code: a     *)
(* limb is a u32, written as its 4 big-endian bytes, and a number is its   *)
(* limbs, most significant first.  A usize is an integer below 2^23, so    *)
(* that its upper half (x >> 32) is 0.                                     *)
(***************************************************************************)
\* 0_u32
WideZero == <<0, 0, 0, 0>>

\* x as u32
WideU32(x) ==
    <<(x \div 16777216) % 256, (x \div 65536) % 256, (x \div 256) % 256,
      x % 256>>

\* from_usize for ArbitraryBytes<n>: result[n - 2] = x >> 32, result[n - 1] = x
WideFromUsize(n, x) ==
    [k \in 1..n |-> IF k = n THEN WideU32(x) ELSE WideZero]

\* const_mul_usize: the loop from the last limb to the first, res being
\* limb * rhs + carry; <<>> is None
RECURSIVE WideConstMulUsizeLoop(_, _, _, _)
WideConstMulUsizeLoop(lhs, rhs, idx, carry) ==
    IF idx = 0 THEN (IF carry # 0 THEN <<>> ELSE <<lhs>>)
    ELSE LET res == MulAddBytes(lhs[idx], rhs, carry, <<>>)
         IN  WideConstMulUsizeLoop([lhs EXCEPT ![idx] = res.bytes], rhs,
                                   idx - 1, res.carry)

\* A product that is refused as soon as it reaches the first limb
WideMulKeepingFirstLimbFree(lhs, rhs) ==
    LET product == WideConstMulUsizeLoop(lhs, rhs, Len(lhs), 0)
    IN  IF product # <<>> /\ product[1][1] # WideZero THEN <<>> ELSE product

WideConstMulUsize(lhs, rhs) == WideConstMulUsizeLoop(lhs, rhs, Len(lhs), 0)

\* Byte p (from the right) of the u64 (a as u64) * (b as u64) + c before
\* the carry of the bytes to its right is added
U64Column(a, b, c, p) ==
    LET prod(x, y) == IF x \in 0..3 /\ y \in 0..3 THEN a[4 - x] * b[4 - y]
                      ELSE 0
    IN  prod(0, p) + prod(1, p - 1) + prod(2, p - 2) + prod(3, p - 3)
            + (IF p < 4 THEN c[4 - p] ELSE 0)

\* (a as u64) * (b as u64) + c for u32 values a, b and c: 8 big-endian bytes
RECURSIVE U64MulAddFrom(_, _, _, _, _, _)
U64MulAddFrom(a, b, c, p, carry, out) ==
    IF p = 8 THEN out
    ELSE LET v == U64Column(a, b, c, p) + carry
         IN  U64MulAddFrom(a, b, c, p + 1, v \div 256, <<v % 256>> \o out)

U64MulAdd(a, b, c) == U64MulAddFrom(a, b, c, 0, 0, <<>>)

\* const_mul_u32: res as u32 is the limb, res >> 32 the carry
RECURSIVE WideConstMulU32Loop(_, _, _, _)
WideConstMulU32Loop(lhs, rhs, idx, carry) ==
    IF idx = 0 THEN (IF carry # WideZero THEN <<>> ELSE <<lhs>>)
    ELSE LET res == U64MulAdd(lhs[idx], rhs, carry)
         IN  WideConstMulU32Loop([lhs EXCEPT ![idx] = SubSeq(res, 5, 8)], rhs,
                                 idx - 1, SubSeq(res, 1, 4))

WideConstMulU32(lhs, rhs) == WideConstMulU32Loop(lhs, rhs, Len(lhs), WideZero)

\* u32::overflowing_add
OverflowingAdd(a, b) ==
    LET c4 == a[4] + b[4]
        c3 == a[3] + b[3] + (c4 \div 256)
        c2 == a[2] + b[2] + (c3 \div 256)
        c1 == a[1] + b[1] + (c2 \div 256)
    IN  [value |-> <<c1 % 256, c2 % 256, c3 % 256, c4 % 256>>,
         overflow |-> c1 >= 256]

\* slice_overflowing_add_assign on u32 limbs: the fold from the last limb
\* to the first
RECURSIVE WideAddAssignFold(_, _, _, _)
WideAddAssignFold(lhs, rhs, k, carry) ==
    IF k = 0 THEN [slice |-> lhs, overflow |-> carry]
    ELSE LET r == OverflowingAdd(rhs[k], WideU32(IF carry THEN 1 ELSE 0))
             s == OverflowingAdd(lhs[k], r.value)
         IN  WideAddAssignFold([lhs EXCEPT ![k] = s.value], rhs, k - 1,
                               r.overflow \/ s.overflow)

WideSliceOverflowingAddAssign(lhs, rhs) ==
    WideAddAssignFold(lhs, rhs, Len(lhs), FALSE)

\* Mul<&ArbitraryBytes<N>> for &ArbitraryBytes<N>, the school method: the
\* try_for_each over the limbs of rhs that are not 0, from limb i (counted
\* from 0) on; <<>> is None
RECURSIVE WideMulFrom(_, _, _, _)
WideMulFrom(self, rhs, idx, acc) ==
    LET n == Len(self)
    IN  IF idx = n THEN <<acc>>
        ELSE IF rhs[idx + 1] = WideZero THEN WideMulFrom(self, rhs, idx + 1, acc)
        ELSE LET p == WideConstMulU32(self, rhs[idx + 1])
             IN  IF p = <<>> THEN <<>>
                 ELSE IF \E k \in 1..(n - 1 - idx) : p[1][k] # WideZero
                 THEN <<>>
                 ELSE LET add == WideSliceOverflowingAddAssign(
                                     SubSeq(acc, 1, idx + 1),
                                     SubSeq(p[1], n - idx, n))
                      IN  IF add.overflow THEN <<>>
                          ELSE WideMulFrom(self, rhs, idx + 1,
                                           add.slice \o SubSeq(acc, idx + 2, n))

WideMul(self, rhs) == WideMulFrom(self, rhs, 0, WideFromUsize(Len(self), 0))

\* div_assign_with_remainder_usize: the fold over the limbs, the dividend of
\* each step being (carry << 32) | limb; self becomes the quotient
RECURSIVE WideDivAssignFold(_, _, _, _)
WideDivAssignFold(limbs, divisor, k, carry) ==
    IF k > Len(limbs) THEN [limbs |-> limbs, remainder |-> carry]
    ELSE LET step == DivBytes(limbs[k], divisor, carry, <<>>)
         IN  WideDivAssignFold([limbs EXCEPT ![k] = step.result], divisor,
                               k + 1, step.remainder)

WideDivAssignWithRemainderUsize(self, rhs) == WideDivAssignFold(self, rhs, 1, 0)

(***************************************************************************)
(* The highest fitting powers: the table built by                          *)
(* gen_const_max_power_cache, lookup, the computation without the table    *)
(* and the divisions of test_exponent_5 and test_exponent_8, one loop      *)
(* iteration per step.                                                     *)
(***************************************************************************)
\* The number of entries of CONSTANT_MAX_POWER_CACHE_5 and _8
CacheCount == 128

\* ArbitraryBytes<5> and ArbitraryBytes<8>
Widths == {5, 8}

\* The bases the functions are called with
PowerBases == (0..130) \cup {255, 256, 1000, 65535, 65536, 4194304}

\* The exponent up to which the squares are followed
MaxExponent == 512

\* TRUE iff gen_const_max_power_cache fills an entry for the base: entry i
\* is the one of base i + 2
HasCacheEntry(base) == (base - 2) \in 0..(CacheCount - 1)

\* A table read at the index of the base itself
GetFromCacheAtBase(base, entry) ==
    IF base < 2 THEN <<>>
    ELSE IF base >= CacheCount THEN <<>>
    ELSE entry

\* get_from_cache: checked_sub(2), then cache.get(idx); entry is the slot
\* of the base when the table has one
GetFromCache(base, entry) ==
    IF base < 2 THEN <<>>
    ELSE IF base - 2 >= CacheCount THEN <<>>
    ELSE entry

PowerInit ==
    /\ NoPasswordCall
    /\ calc \in {[n |-> n, base |-> base,
                  stage |-> IF HasCacheEntry(base) THEN "gen" ELSE "lookup",
                  entry |-> IF HasCacheEntry(base)
                            THEN <<[power |-> WideFromUsize(n, base),
                                    exponent |-> 1]>>
                            ELSE <<>>,
                  looked |-> <<>>, nc |-> <<>>, found |-> <<>>,
                  quotient |-> <<>>, divisions |-> 0, exact |-> TRUE] :
                    n \in Widths, base \in PowerBases}

\* const_find_highest_fitting_power: one iteration of the while let loop
ConstFindHighestFittingPower ==
    /\ calc.stage = "gen"
    /\ LET x == calc.entry[1]
           next == WideConstMulUsize(x.power, calc.base)
       IN  calc' = IF next # <<>>
                   THEN [calc EXCEPT !.entry = <<[power |-> next[1],
                                                  exponent |-> x.exponent + 1]>>]
                   ELSE [calc EXCEPT !.stage = "lookup"]
    /\ NoPasswordStep

\* V::lookup(base), and the first element of the successors of
\* find_highest_fitting_power_non_cached
PowerLookup ==
    /\ calc.stage = "lookup"
    /\ calc' = [calc EXCEPT
                   !.looked = GetFromCache(calc.base, calc.entry),
                   !.nc = <<[power |-> WideFromUsize(calc.n, calc.base),
                             exponent |-> 1]>>,
                   !.stage = "squares"]
    /\ NoPasswordStep

\* successors(.., |(p, e)| Some(((p * p)?, 2 * e))): one element
PowerSquare ==
    /\ calc.stage = "squares"
    /\ calc.nc[1].exponent < MaxExponent
    /\ LET p == calc.nc[1]
           sq == WideMul(p.power, p.power)
       IN  calc' = IF sq # <<>>
                   THEN [calc EXCEPT !.nc = <<[power |-> sq[1],
                                               exponent |-> 2 * p.exponent]>>]
                   ELSE [calc EXCEPT !.stage = "products"]
    /\ NoPasswordStep

\* successors(exp_result, |(power, count)| (power * base).map(..)): one
\* element; after the last one find_highest_fitting_power returns the
\* looked up pair, or else the computed one
PowerProduct ==
    /\ calc.stage = "products"
    /\ LET p == calc.nc[1]
           next == WideConstMulUsize(p.power, calc.base)
           found == IF calc.looked # <<>> THEN calc.looked ELSE calc.nc
       IN  calc' = IF next # <<>>
                   THEN [calc EXCEPT !.nc = <<[power |-> next[1],
                                               exponent |-> p.exponent + 1]>>]
                   ELSE [calc EXCEPT !.found = found,
                                     !.quotient = found[1].power,
                                     !.stage = "divide"]
    /\ NoPasswordStep

\* test_exponent_5 and test_exponent_8: one division of the power by the
\* base
PowerDivide ==
    /\ calc.stage = "divide"
    /\ LET d == WideDivAssignWithRemainderUsize(calc.quotient, calc.base)
       IN  calc' = IF calc.divisions < calc.found[1].exponent
                   THEN [calc EXCEPT !.quotient = d.limbs,
                                     !.exact = @ /\ d.remainder = 0,
                                     !.divisions = @ + 1]
                   ELSE [calc EXCEPT !.stage = "done"]
    /\ NoPasswordStep

PowerNext ==
    \/ ConstFindHighestFittingPower
    \/ PowerLookup
    \/ PowerSquare
    \/ PowerProduct
    \/ PowerDivide

PowerSpec == PowerInit /\ [][PowerNext]_vars

\* 10^48, the entry of base 10 in ArbitraryBytes<5>
TenTo48 ==
    <<<<175, 41, 141, 5>>, <<14, 67, 149, 214>>, <<150, 112, 177, 43>>,
      <<127, 65, 0, 0>>, <<0, 0, 0, 0>>>>

\* C21: for every base from 2 to 129 and both widths, lookup returns the
\* pair that find_highest_fitting_power_non_cached computes; for a base
\* below 2 or above 129 lookup returns None, and find_highest_fitting_power
\* returns the computed pair.
C21_CacheAgreesWithNonCached ==
    /\ calc.stage \in {"squares", "products", "divide", "done"}
           => (calc.looked # <<>> <=> calc.base \in 2..129)
    /\ calc.stage \in {"divide", "done"}
           => /\ calc.base \in 2..129
                     => calc.looked = calc.nc /\ calc.found = calc.looked
              /\ calc.base \notin 2..129 => calc.found = calc.nc

\* Base 10 in five limbs: the table and the computation (squares up to
\* 10^32, then 16 products) both gave 10^48
C21_Witness ==
    /\ calc.stage = "done"
    /\ calc.n = 5
    /\ calc.base = 10
    /\ calc.looked = <<[power |-> TenTo48, exponent |-> 48]>>
    /\ calc.nc = calc.looked

\* base^exponent in unbounded arithmetic, cut to width bytes: the bytes and
\* what overflows them
PowerBytes(base, exponent, width) ==
    DigitsValue(<<1>> \o [k \in 1..exponent |-> 0], base, width)

\* TRUE iff const_mul_usize of the power p by the base returns None exactly
\* when the product does not fit in the limbs of p, and else the product
MulIsChecked(p, base) ==
    LET product == MulAddBytes(Concat(p), base, 0, <<>>)
        returned == WideConstMulUsize(p, base)
    IN  IF product.carry # 0 THEN returned = <<>>
        ELSE returned # <<>> /\ Concat(returned[1]) = product.bytes

\* The safety part of C24
PowerIsHighest ==
    /\ calc.stage = "gen" => MulIsChecked(calc.entry[1].power, calc.base)
    /\ calc.stage = "products" => MulIsChecked(calc.nc[1].power, calc.base)
    /\ calc.stage \in {"divide", "done"} =>
           /\ calc.exact
           /\ calc.divisions <= calc.found[1].exponent
           /\ MulIsChecked(calc.found[1].power, calc.base)
           /\ WideConstMulUsize(calc.found[1].power, calc.base) = <<>>
    /\ calc.stage = "done" =>
           LET p == calc.found[1].power
               e == calc.found[1].exponent
           IN  /\ PowerBytes(calc.base, e, 4 * calc.n)
                      = [bytes |-> Concat(p), carry |-> 0]
               /\ PowerBytes(calc.base, e + 1, 4 * calc.n).carry # 0
               /\ calc.divisions = e
               /\ calc.quotient = WideFromUsize(calc.n, 1)

\* How far the computation has come: the loops in their order, and within
\* a loop the exponent, or the number of divisions, it has reached
PowerProgress ==
    CASE calc.stage = "gen" -> calc.entry[1].exponent
      [] calc.stage = "lookup" -> MaxExponent
      [] calc.stage = "squares" -> (2 * MaxExponent) + calc.nc[1].exponent
      [] calc.stage = "products" -> (3 * MaxExponent) + calc.nc[1].exponent
      [] calc.stage = "divide" -> (4 * MaxExponent) + calc.divisions
      [] calc.stage = "done" -> 5 * MaxExponent

\* C24: for every base B >= 2 and both widths the highest fitting power
\* (P, E), looked up or computed, is P = B^E, P fits in the limbs and P * B
\* does not; the multiplication by B returns None exactly when the product
\* overflows the limbs; P divided by B E times leaves 1, each division
\* with remainder 0; and the computation comes to an end: the squaring
\* loop, the only one the model cuts short, is left before MaxExponent is
\* reached, and every step brings the computation further towards the end.
C24_HighestFittingPower ==
    /\ [](calc.base >= 2 =>
             /\ PowerIsHighest
             /\ calc.stage = "squares" => calc.nc[1].exponent < MaxExponent
             /\ PowerProgress <= 5 * MaxExponent)
    /\ [][calc.base >= 2 => PowerProgress' > PowerProgress]_vars

\* Base 94 in eight limbs: 94^39 was looked up, computed (39 = 32 + 7) and
\* divided down to 1
C24_Witness ==
    /\ calc.stage = "done"
    /\ calc.n = 8
    /\ calc.base = 94
    /\ calc.looked # <<>>
    /\ calc.found[1].exponent = 39
    /\ calc.nc = calc.found
    /\ calc.divisions = 39
    /\ calc.quotient = WideFromUsize(8, 1)


(***************************************************************************)
(* Division by a machine word on its own: Division::divide for [u32; N]    *)
(* and div_assign_with_remainder_usize, at the width of the code.          *)
(***************************************************************************)
\* The dividend of test_array_divide, 0xe7f1ec3a5f35af805407a8a531eefb79
TestDividend ==
    <<<<231, 241, 236, 58>>, <<95, 53, 175, 128>>, <<84, 7, 168, 165>>,
      <<49, 238, 251, 121>>>>

\* u32 values: 0, 1, 0x7fffffff, 0x80000000 and u32::MAX
SomeLimbs ==
    {WideZero, WideU32(1), <<127, 255, 255, 255>>, <<128, 0, 0, 0>>,
     <<255, 255, 255, 255>>}

\* Arrays of 4, 5 and 8 limbs
SomeArrays ==
    [1..4 -> SomeLimbs]
    \cup {TestDividend, TenTo48, [k \in 1..5 |-> <<255, 255, 255, 255>>],
          [k \in 1..8 |-> <<255, 255, 255, 255>>]}

\* Divisors that are not 0, up to 2^23 - 1
SomeDivisors ==
    {1, 2, 3, 7, 10, 16, 94, 255, 256, 257, 65535, 65536, 65537, 4194304,
     8388607}

ArrayDivideInit ==
    /\ NoPasswordCall
    /\ calc \in {[value |-> value, divisor |-> divisor, function |-> "",
                  returned |-> <<>>] :
                    value \in SomeArrays, divisor \in SomeDivisors}

\* value.divide(&divisor)
DivideCall ==
    /\ calc.returned = <<>>
    /\ calc' = [calc EXCEPT
                   !.function = "divide",
                   !.returned = <<DivideArray(calc.value, calc.divisor)>>]
    /\ NoPasswordStep

\* value.div_assign_with_remainder_usize(&divisor): value becomes the result
DivAssignWithRemainderCall ==
    /\ calc.returned = <<>>
    /\ LET d == WideDivAssignWithRemainderUsize(calc.value, calc.divisor)
       IN  calc' = [calc EXCEPT
                       !.function = "div_assign_with_remainder_usize",
                       !.returned = <<[result |-> d.limbs,
                                       remainder |-> d.remainder]>>]
    /\ NoPasswordStep

ArrayDivideNext == DivideCall \/ DivAssignWithRemainderCall

ArrayDivideSpec == ArrayDivideInit /\ [][ArrayDivideNext]_vars

\* What the function of the call carries into limb k + 1: the remainder
\* after the first k limbs
CarryAfter(k) ==
    IF calc.function = "divide"
    THEN DivideArray(SubSeq(calc.value, 1, k), calc.divisor).remainder
    ELSE WideDivAssignWithRemainderUsize(SubSeq(calc.value, 1, k),
                                         calc.divisor).remainder

\* C26: dividing an array of u32 limbs, most significant first, by a
\* machine word d that is not 0, with Division::divide or with
\* div_assign_with_remainder, gives a quotient q and a remainder r with
\* q * d + r = value and r < d; the remainder carried from limb to limb is
\* below d and every partial quotient fits in 32 bits, so the assertions of
\* the two functions hold.
C26_DivideByWord ==
    calc.returned # <<>> =>
        LET q == calc.returned[1].result
            r == calc.returned[1].remainder
        IN  /\ Len(q) = Len(calc.value)
            /\ \A k \in 1..Len(q) :
                   /\ Len(q[k]) = 4
                   /\ \A b \in 1..4 : q[k][b] \in 0..255
            /\ \A k \in 0..Len(q) : CarryAfter(k) \in 0..(calc.divisor - 1)
            /\ r = CarryAfter(Len(q))
            /\ r < calc.divisor
            /\ MulAddBytes(Concat(q), calc.divisor, r, <<>>)
                   = [bytes |-> Concat(calc.value), carry |-> 0]
            /\ calc.returned[1]
                   = DivideArray(calc.value, calc.divisor)
            /\ calc.returned[1].result
                   = WideDivAssignWithRemainderUsize(calc.value,
                                                     calc.divisor).limbs

\* The dividend of test_array_divide divided by 65537 with
\* div_assign_with_remainder_usize: remainders were carried between limbs
C26_Witness ==
    /\ calc.returned # <<>>
    /\ calc.function = "div_assign_with_remainder_usize"
    /\ calc.value = TestDividend
    /\ calc.divisor = 65537
    /\ calc.returned[1].remainder > 0
    /\ \A k \in 1..3 : CarryAfter(k) > 0
    /\ calc.returned[1].result[1] # WideZero

(***************************************************************************)
(* The URL preprocessor: UrlParsing::parse is parse_url, then              *)
(* filter_by_settings, then recombine.  calc holds the input, the          *)
(* settings and what each of the three functions returned.                 *)
(***************************************************************************)
Colon == 58

Slash == 47

At == 64

Dot == 46

\* "undefined"
Undefined == <<117, 110, 100, 101, 102, 105, 110, 101, 100>>

\* "://"
ProtocolSeparator == <<Colon, Slash, Slash>>

\* The index of the first c of s, 0 when s holds no c
RECURSIVE FindFrom(_, _, _)
FindFrom(s, c, k) ==
    IF k > Len(s) THEN 0
    ELSE IF s[k] = c THEN k
    ELSE FindFrom(s, c, k + 1)

\* str::find(c)
Find(s, c) == FindFrom(s, c, 1)

\* str::split_once(c): <<>> for None, <<<<before, after>>>> for Some
SplitOnce(s, c) ==
    LET k == Find(s, c)
    IN  IF k = 0 THEN <<>>
        ELSE <<<<SubSeq(s, 1, k - 1), SubSeq(s, k + 1, Len(s))>>>>

\* str::strip_prefix(prefix): <<>> for None, <<rest>> for Some
StripPrefix(s, prefix) ==
    IF Len(s) >= Len(prefix) /\ SubSeq(s, 1, Len(prefix)) = prefix
    THEN <<SubSeq(s, Len(prefix) + 1, Len(s))>>
    ELSE <<>>

\* str::rmatch_indices(c).nth(n), counted from 0: the index of the n-th c
\* from the end of the first k characters of s, 0 for None
RECURSIVE RMatchNth(_, _, _, _)
RMatchNth(s, c, n, k) ==
    IF k = 0 THEN 0
    ELSE IF s[k] = c
         THEN IF n = 0 THEN k ELSE RMatchNth(s, c, n - 1, k - 1)
    ELSE RMatchNth(s, c, n, k - 1)

\* Option::unwrap_or
UnwrapOr(option, default) == IF option = <<>> THEN default ELSE option[1]

parse_url(input) ==
    LET maybe_protocol == SplitOnce(input, Colon)
        has_protocol == maybe_protocol # <<>>
        split == UnwrapOr(maybe_protocol, <<<<>>, input>>)
        protocol == split[1]
        removed_authority_marker == StripPrefix(split[2], <<Slash, Slash>>)
        has_authority == removed_authority_marker # <<>>
        rest == UnwrapOr(removed_authority_marker, split[2])
        \* the index of the first character of the path, 0 for None
        first_character_of_path ==
            IF has_protocol /\ ~has_authority THEN 1 ELSE Find(rest, Slash)
        authority ==
            IF first_character_of_path = 0 THEN rest
            ELSE SubSeq(rest, 1, first_character_of_path - 1)
        path_query_fragment ==
            IF first_character_of_path = 0 THEN <<>>
            ELSE SubSeq(rest, first_character_of_path, Len(rest))
        user_split == UnwrapOr(SplitOnce(authority, At), <<<<>>, authority>>)
        userinfo == user_split[1]
        host_and_port == user_split[2]
        port_split ==
            UnwrapOr(SplitOnce(host_and_port, Colon), <<host_and_port, <<>>>>)
        address == port_split[1]
        port == port_split[2]
        separator_between_subdom_and_domain ==
            RMatchNth(address, Dot, 1, Len(address))
        subdomain ==
            IF separator_between_subdom_and_domain = 0 THEN <<>>
            ELSE SubSeq(address, 1, separator_between_subdom_and_domain - 1)
        domain_with_leading_dot ==
            IF separator_between_subdom_and_domain = 0 THEN address
            ELSE SubSeq(address, separator_between_subdom_and_domain,
                        Len(address))
        domain ==
            UnwrapOr(StripPrefix(domain_with_leading_dot, <<Dot>>),
                     domain_with_leading_dot)
    IN  [protocol |-> protocol, userinfo |-> userinfo,
         subdomain |-> subdomain, domain |-> domain, port |-> port,
         path_query_fragment |-> path_query_fragment]

is_protocol_used(settings) ==
    settings.use_protocol \in {"Used", "UsedWithUndefinedIfEmpty"}

use_protocol_undefined_fallback(settings) ==
    settings.use_protocol = "UsedWithUndefinedIfEmpty"

\* A filter that writes the separator whenever the protocol is used
filter_always_with_separator(parts, settings) ==
    [protocol |->
         IF is_protocol_used(settings) /\ parts.protocol # <<>>
         THEN parts.protocol
         ELSE IF use_protocol_undefined_fallback(settings) THEN Undefined
         ELSE <<>>,
     protocol_separator |->
         IF is_protocol_used(settings) THEN ProtocolSeparator ELSE <<>>,
     userinfo |-> IF settings.use_userinfo THEN parts.userinfo ELSE <<>>,
     subdomain |-> IF settings.use_subdomains THEN parts.subdomain ELSE <<>>,
     domain |-> IF settings.use_domain THEN parts.domain ELSE <<>>,
     port |-> IF settings.use_port_path THEN parts.port ELSE <<>>,
     path_query_fragment |->
         IF settings.use_port_path THEN parts.path_query_fragment ELSE <<>>]

filter_by_settings(parts, settings) ==
    LET has_protocol == is_protocol_used(settings) /\ parts.protocol # <<>>
    IN  [protocol |->
             IF has_protocol THEN parts.protocol
             ELSE IF use_protocol_undefined_fallback(settings) THEN Undefined
             ELSE <<>>,
         protocol_separator |->
             IF has_protocol THEN ProtocolSeparator ELSE <<>>,
         userinfo |-> IF settings.use_userinfo THEN parts.userinfo ELSE <<>>,
         subdomain |->
             IF settings.use_subdomains THEN parts.subdomain ELSE <<>>,
         domain |-> IF settings.use_domain THEN parts.domain ELSE <<>>,
         port |-> IF settings.use_port_path THEN parts.port ELSE <<>>,
         path_query_fragment |->
             IF settings.use_port_path THEN parts.path_query_fragment
             ELSE <<>>]

\* A recombine that writes the ":" only in front of a port that follows a
\* domain
recombine_colon_after_domain(used) ==
    LET has_userinfo == used.userinfo # <<>>
        has_subdomain == used.subdomain # <<>>
        has_domain == used.domain # <<>>
        has_port == used.port # <<>>
        has_path_query_fragment == used.path_query_fragment # <<>>
    IN  Concat(<<
            used.protocol,
            used.protocol_separator,
            used.userinfo,
            IF has_userinfo /\ (has_domain \/ has_subdomain \/ has_port
                                \/ has_path_query_fragment)
            THEN <<At>> ELSE <<>>,
            used.subdomain,
            IF has_subdomain /\ has_domain THEN <<Dot>> ELSE <<>>,
            used.domain,
            IF has_port /\ has_domain THEN <<Colon>> ELSE <<>>,
            used.port,
            used.path_query_fragment>>)

recombine(used) ==
    LET has_userinfo == used.userinfo # <<>>
        has_subdomain == used.subdomain # <<>>
        has_domain == used.domain # <<>>
        has_port == used.port # <<>>
        has_path_query_fragment == used.path_query_fragment # <<>>
        parts == <<
            used.protocol,
            used.protocol_separator,
            used.userinfo,
            IF has_userinfo /\ (has_domain \/ has_subdomain \/ has_port
                                \/ has_path_query_fragment)
            THEN <<At>> ELSE <<>>,
            used.subdomain,
            IF has_subdomain /\ has_domain THEN <<Dot>> ELSE <<>>,
            used.domain,
            IF has_port /\ (has_userinfo \/ has_domain \/ has_subdomain)
            THEN <<Colon>> ELSE <<>>,
            used.port,
            used.path_query_fragment>>
    IN  Concat(parts)

\* "xmpp", "mailto"
Xmpp == <<120, 109, 112, 112>>

Mailto == <<109, 97, 105, 108, 116, 111>>

\* The start of an input: nothing, "xmpp://", "mailto:", "//", ":" or "://"
SomeProtocols ==
    {<<>>, Xmpp \o ProtocolSeparator, Mailto \o <<Colon>>, <<Slash, Slash>>,
     <<Colon>>, ProtocolSeparator}

\* Nothing, "horst@" and "horst:12345@"
SomeUserinfos ==
    {<<>>, <<104, 111, 114, 115, 116, At>>,
     <<104, 111, 114, 115, 116, Colon, 49, 50, 51, 52, 53, At>>}

\* Nothing, "com", "example.com", "www.example.com", "a.www.example.com"
\* and ".."
SomeAddresses ==
    LET com == <<99, 111, 109>>
        example == <<101, 120, 97, 109, 112, 108, 101>>
        www == <<119, 119, 119>>
    IN  {<<>>, com, example \o <<Dot>> \o com,
         www \o <<Dot>> \o example \o <<Dot>> \o com,
         <<97, Dot>> \o www \o <<Dot>> \o example \o <<Dot>> \o com,
         <<Dot, Dot>>}

\* Nothing and ":8080"
SomePorts == {<<>>, <<Colon, 56, 48, 56, 48>>}

\* Nothing, "/some/path" and "/a@b:c"
SomePaths ==
    {<<>>, <<Slash, 115, 111, 109, 101, Slash, 112, 97, 116, 104>>,
     <<Slash, 97, At, 98, Colon, 99>>}

SomeUrls ==
    {Concat(<<protocol, userinfo, address, port, path>>) :
        protocol \in SomeProtocols, userinfo \in SomeUserinfos,
        address \in SomeAddresses, port \in SomePorts, path \in SomePaths}

\* UrlParsing::new with every choice of its five arguments
SomeUrlParsings ==
    [use_protocol : {"Ignored", "Used", "UsedWithUndefinedIfEmpty"},
     use_userinfo : BOOLEAN, use_subdomains : BOOLEAN, use_domain : BOOLEAN,
     use_port_path : BOOLEAN]

UrlInit ==
    /\ NoPasswordCall
    /\ calc \in {[input |-> input, settings |-> settings, parsed |-> <<>>,
                  used |-> <<>>, returned |-> <<>>] :
                    input \in SomeUrls, settings \in SomeUrlParsings}

\* parse_url(input)
ParseUrl ==
    /\ calc.parsed = <<>>
    /\ calc' = [calc EXCEPT !.parsed = <<parse_url(calc.input)>>]
    /\ NoPasswordStep

\* .filter_by_settings(self)
FilterBySettings ==
    /\ calc.parsed # <<>>
    /\ calc.used = <<>>
    /\ calc' = [calc EXCEPT
                   !.used = <<filter_by_settings(calc.parsed[1],
                                                 calc.settings)>>]
    /\ NoPasswordStep

\* .recombine()
Recombine ==
    /\ calc.used # <<>>
    /\ calc.returned = <<>>
    /\ calc' = [calc EXCEPT !.returned = <<recombine(calc.used[1])>>]
    /\ NoPasswordStep

UrlNext == ParseUrl \/ FilterBySettings \/ Recombine

UrlSpec == UrlInit /\ [][UrlNext]_vars

\* The protocol of the input is handed on: it is used and it is not empty
ProtocolIsKept ==
    /\ calc.settings.use_protocol # "Ignored"
    /\ calc.parsed[1].protocol # <<>>

\* C27: filter_by_settings hands on userinfo, subdomain and domain exactly
\* when use_userinfo, use_subdomains and use_domain are set, port and path
\* exactly when use_port_path is set, and the empty string in their place
\* otherwise.  The protocol is handed on only when the protocol is used and
\* the protocol of the input is not empty, and "://" is the separator in
\* exactly that case; with UsedWithUndefinedIfEmpty an empty protocol
\* becomes "undefined" with an empty separator, and in every other case the
\* protocol is empty.
C27_FilterBySettings ==
    calc.used # <<>> =>
        LET inputs == calc.parsed[1]
            output == calc.used[1]
            settings == calc.settings
            Kept(enabled, part) == IF enabled THEN part ELSE <<>>
        IN  /\ output.userinfo = Kept(settings.use_userinfo, inputs.userinfo)
            /\ output.subdomain
                   = Kept(settings.use_subdomains, inputs.subdomain)
            /\ output.domain = Kept(settings.use_domain, inputs.domain)
            /\ output.port = Kept(settings.use_port_path, inputs.port)
            /\ output.path_query_fragment
                   = Kept(settings.use_port_path, inputs.path_query_fragment)
            /\ ProtocolIsKept => output.protocol = inputs.protocol
            /\ output.protocol_separator = ProtocolSeparator
                   <=> ProtocolIsKept
            /\ output.protocol_separator \in {ProtocolSeparator, <<>>}
            /\ (settings.use_protocol = "UsedWithUndefinedIfEmpty"
                    /\ inputs.protocol = <<>>)
                   => /\ output.protocol = Undefined
                      /\ output.protocol_separator = <<>>
            /\ (settings.use_protocol = "Ignored"
                    \/ (settings.use_protocol = "Used"
                            /\ inputs.protocol = <<>>))
                   => output.protocol = <<>>

\* "://www.example.com:8080/some/path" with UsedWithUndefinedIfEmpty, the
\* domain dropped and the rest kept
C27_Witness ==
    /\ calc.used # <<>>
    /\ calc.settings.use_protocol = "UsedWithUndefinedIfEmpty"
    /\ ~calc.settings.use_domain
    /\ calc.settings.use_subdomains
    /\ calc.settings.use_port_path
    /\ calc.parsed[1].protocol = <<>>
    /\ calc.parsed[1].domain # <<>>
    /\ calc.used[1].protocol = Undefined
    /\ calc.used[1].protocol_separator = <<>>
    /\ calc.used[1].domain = <<>>
    /\ calc.used[1].subdomain = <<119, 119, 119>>
    /\ calc.used[1].port # <<>>
    /\ calc.used[1].path_query_fragment # <<>>

\* C28: recombine returns protocol, separator, userinfo, subdomain, domain,
\* port and path in this order, with "@" after the userinfo exactly when
\* the userinfo and one of subdomain, domain, port, path are not empty,
\* "." between subdomain and domain exactly when neither is empty, and ":"
\* before the port exactly when the port and one of userinfo, subdomain,
\* domain are not empty.
C28_Recombine ==
    calc.returned # <<>> =>
        LET used == calc.used[1]
            SomeNotEmpty(texts) == \E text \in texts : text # <<>>
            at == used.userinfo # <<>>
                  /\ SomeNotEmpty({used.subdomain, used.domain, used.port,
                                   used.path_query_fragment})
            dot == used.subdomain # <<>> /\ used.domain # <<>>
            colon == used.port # <<>>
                     /\ SomeNotEmpty({used.userinfo, used.subdomain,
                                      used.domain})
        IN  calc.returned[1]
                = used.protocol \o used.protocol_separator \o used.userinfo
                  \o (IF at THEN <<At>> ELSE <<>>)
                  \o used.subdomain
                  \o (IF dot THEN <<Dot>> ELSE <<>>)
                  \o used.domain
                  \o (IF colon THEN <<Colon>> ELSE <<>>)
                  \o used.port \o used.path_query_fragment

\* "://horst:12345@www.example.com:8080/some/path" without protocol and
\* domain becomes "horst:12345@www:8080/some/path"
C28_Witness ==
    /\ calc.returned # <<>>
    /\ calc.parsed[1].protocol = <<>>
    /\ calc.used[1].userinfo # <<>>
    /\ calc.used[1].subdomain # <<>>
    /\ calc.used[1].domain = <<>>
    /\ calc.used[1].port # <<>>
    /\ calc.used[1].protocol = <<>>
    /\ Find(calc.used[1].userinfo, Colon) > 0
    /\ calc.returned[1]
           = calc.used[1].protocol \o calc.used[1].userinfo \o <<At>>
             \o calc.used[1].subdomain \o <<Colon>> \o calc.used[1].port
             \o calc.used[1].path_query_fragment
    /\ calc.used[1].path_query_fragment # <<>>
    /\ Find(calc.returned[1], Dot) = 0

=============================================================================
